---- MODULE Spec2Model ----
(***************************************************************************)
(* ScoreWise: the cricket rules engine (CricketEngine) and the live        *)
(* scorer that drives it, modelled as state machines.                      *)
(*                                                                         *)
(* JavaScript objects are modelled with an explicit heap, because the      *)
(* code copies a Match only shallowly ({ ...match }): the copy shares the  *)
(* ball array and the two team objects with the original.                  *)
(*   teams       team reference  -> the team object                       *)
(*   ballArrays  array reference -> the ball array                        *)
(*   a Match value holds references (balls, battingTeam, bowlingTeam) and  *)
(*   its own scalar fields.                                                *)
(*                                                                         *)
(* The specifications:                                                     *)
(*   SpecEngine   CricketEngine.processBall applied again and again to a   *)
(*                freshly set-up match                                     *)
(*   SpecQuery    the pure queries isInningsComplete / getMatchResult on   *)
(*                matches drawn from bounded sets                          *)
(*   SpecLive     the LiveScorer that calls CricketEngine.processBall,     *)
(*                with the ScoringPanel that feeds it                      *)
(*   SpecSnap     the LiveScorer that scores inline and keeps Match        *)
(*                snapshots for undo                                       *)
(*   SpecBowlers  canBowlerBowlNextOver / getAvailableBowlers on matches   *)
(*                scored over by over                                      *)
(*   SpecStats    updatePlayerStats over the completed matches of a career *)
(*   SpecMotm     calculateManOfTheMatch on matches with short ball logs   *)
(*   SpecSync     the LiveScorer with its load and save effects and the    *)
(*                cloud document of the match                              *)
(*   SpecFold     updatePlayerStats and calculatePlayerPerformance folded  *)
(*                over the ball log of one completed match                 *)
(*   SpecRetry    the snapshot LiveScorer's debounced save effect and its  *)
(*                retry counter                                            *)
(***************************************************************************)
EXTENDS Integers, Sequences, FiniteSets, TLC

VARIABLES
    match,          \* the scorer's React state `match` (a shallow Match value)
    teams,          \* heap of team objects
    ballArrays,     \* heap of ball arrays
    lastCall,       \* the last processBall call: argument and result, for the claims
    actionHistory,  \* LiveScorer undo history (balls, or Match snapshots)
    panel,          \* ScoringPanel local state: striker, nonStriker, bowler
    ui,             \* LiveScorer modal flags
    reported,       \* the Match handed to onMatchComplete / built by handleMatchComplete
    query,          \* SpecQuery: the last query made and its answer
    undoCount,      \* undo clicks made so far
    cloud           \* connectivity, the stored match document and the requests in flight

vars == <<match, teams, ballArrays, lastCall, actionHistory, panel, ui, reported, query,
         undoCount, cloud>>

----------------------------------------------------------------------------
(* Bounds of the model *)

\* longest ball log explored
MaxBalls == 7
\* at most this many deliveries of a log are anything but a dot ball
MaxEventful == 2
\* SpecQuery: scores and first-innings scores range over 0..MaxScore
MaxScore == 3

(* Program constants *)

\* legal deliveries in an over
BallsPerOver == 6
\* wickets that end an innings
AllOut == 10

----------------------------------------------------------------------------
(* Values *)

\* JavaScript `undefined` for a player reference and for a number
NoPlayer == "none"
Undefined == -1

Team1Players == <<"a1", "a2", "a3">>
Team2Players == <<"b1", "b2", "b3">>

TeamRefs == {"team1", "team2"}
OtherTeam(r) == IF r = "team1" THEN "team2" ELSE "team1"

\* a JavaScript number used as a condition: undefined and 0 are falsy
Truthy(n) == n # Undefined /\ n # 0

NoExtras == [wides |-> 0, noBalls |-> 0, byes |-> 0, legByes |-> 0]

NewTeam(nm, ps) ==
    [name |-> nm, players |-> ps, score |-> 0, wickets |-> 0,
     overs |-> 0, balls |-> 0, extras |-> NoExtras]

\* the text getMatchResult builds, kept in its parts
ResultText(t, tm, n) == [text |-> t, team |-> tm, margin |-> n]
NoResult == ResultText("undefined", "", 0)

NewMatch(total) ==
    [balls |-> 1, battingTeam |-> "team1", bowlingTeam |-> "team2",
     totalOvers |-> total,
     currentStriker |-> "a1", currentNonStriker |-> "a2", currentBowler |-> "b1",
     previousBowler |-> NoPlayer,
     isSecondInnings |-> FALSE, firstInningsScore |-> Undefined,
     isCompleted |-> FALSE, winner |-> NoResult, manOfTheMatch |-> NoPlayer]

FreshTeams ==
    [r \in TeamRefs |-> IF r = "team1" THEN NewTeam("Alpha", Team1Players)
                                       ELSE NewTeam("Beta", Team2Players)]

\* the Match as a reader sees it: references followed
Deep(m, tm, arr) ==
    [m EXCEPT !.balls = arr[m.balls],
              !.battingTeam = tm[m.battingTeam],
              !.bowlingTeam = tm[m.bowlingTeam]]

RECURSIVE SumRuns(_)
SumRuns(s) == IF s = <<>> THEN 0 ELSE s[1].runs + SumRuns(Tail(s))

Legal(b) == ~b.isWide /\ ~b.isNoBall

RECURSIVE CountLegal(_)
CountLegal(s) ==
    IF s = <<>> THEN 0 ELSE (IF Legal(s[1]) THEN 1 ELSE 0) + CountLegal(Tail(s))

----------------------------------------------------------------------------
(* CricketEngine *)

shouldRotateStrike(ball, overComplete) ==
    IF ball.isWide \/ ball.isNoBall
    THEN ball.runs > 1
    ELSE (ball.runs % 2 = 1) \/ overComplete

isOverComplete(m, tm, arr) ==
    LET currentOver == tm[m.battingTeam].overs + 1
        valid(b) == b.overNumber = currentOver /\ ~b.isWide /\ ~b.isNoBall
    IN Len(SelectSeq(arr[m.balls], valid)) >= BallsPerOver

isInningsComplete(m, tm) ==
    LET battingTeam == tm[m.battingTeam]
    IN  IF battingTeam.overs >= m.totalOvers THEN TRUE
        ELSE IF battingTeam.wickets >= AllOut THEN TRUE
        ELSE IF m.isSecondInnings /\ Truthy(m.firstInningsScore)
                /\ battingTeam.score > m.firstInningsScore THEN TRUE
        ELSE FALSE

canBowlerBowlNextOver(bowler, m, tm, arr) ==
    LET log == arr[m.balls]
        previousOver == (tm[m.battingTeam].overs + 1) - 1
        inPrev(b) == b.overNumber = previousOver
        previousOverBalls == SelectSeq(log, inPrev)
    IN  IF Len(log) = 0 THEN TRUE
        ELSE IF previousOver <= 0 THEN TRUE
        ELSE IF Len(previousOverBalls) = 0 THEN TRUE
        ELSE previousOverBalls[1].bowler # bowler

getAvailableBowlers(m, tm, arr, nextOver) ==
    LET allBowlers == tm[m.bowlingTeam].players
        notBatting(p) == p # m.currentStriker /\ p # m.currentNonStriker
        inPrev(b) == b.overNumber = nextOver - 1
        previousOverBalls == SelectSeq(arr[m.balls], inPrev)
        eligible(p) == p # previousOverBalls[1].bowler /\ notBatting(p)
    IN  IF nextOver <= 1 THEN SelectSeq(allBowlers, notBatting)
        ELSE IF Len(previousOverBalls) = 0 THEN SelectSeq(allBowlers, notBatting)
        ELSE SelectSeq(allBowlers, eligible)

\* TeamAfterBall with byes and leg-byes added to the score a second time
TeamAfterBall_ByesTwice(t, ball) ==
    LET t1 == [t EXCEPT !.score = @ + ball.runs]
        t2 == IF ball.isWide THEN [t1 EXCEPT !.extras.wides = @ + 1]
              ELSE IF ball.isNoBall THEN [t1 EXCEPT !.extras.noBalls = @ + 1]
              ELSE IF ball.isBye
              THEN [t1 EXCEPT !.extras.byes = @ + ball.runs, !.score = @ + ball.runs]
              ELSE IF ball.isLegBye
              THEN [t1 EXCEPT !.extras.legByes = @ + ball.runs, !.score = @ + ball.runs]
              ELSE t1
        t3 == IF ball.isWicket THEN [t2 EXCEPT !.wickets = @ + 1] ELSE t2
    IN  IF ~ball.isWide /\ ~ball.isNoBall
        THEN IF t3.balls + 1 >= BallsPerOver
             THEN [t3 EXCEPT !.overs = @ + 1, !.balls = 0]
             ELSE [t3 EXCEPT !.balls = @ + 1]
        ELSE t3

\* TeamAfterBall with a no-ball counted as a ball of the over
TeamAfterBall_NoBallCounts(t, ball) ==
    LET t1 == [t EXCEPT !.score = @ + ball.runs]
        t2 == IF ball.isWide THEN [t1 EXCEPT !.extras.wides = @ + 1]
              ELSE IF ball.isNoBall THEN [t1 EXCEPT !.extras.noBalls = @ + 1]
              ELSE IF ball.isBye THEN [t1 EXCEPT !.extras.byes = @ + ball.runs]
              ELSE IF ball.isLegBye THEN [t1 EXCEPT !.extras.legByes = @ + ball.runs]
              ELSE t1
        t3 == IF ball.isWicket THEN [t2 EXCEPT !.wickets = @ + 1] ELSE t2
    IN  IF ~ball.isWide
        THEN IF t3.balls + 1 >= BallsPerOver
             THEN [t3 EXCEPT !.overs = @ + 1, !.balls = 0]
             ELSE [t3 EXCEPT !.balls = @ + 1]
        ELSE t3

\* the team object after the delivery: score, extras, wickets, ball count
TeamAfterBall(t, ball) ==
    LET t1 == [t EXCEPT !.score = @ + ball.runs]
        t2 == IF ball.isWide THEN [t1 EXCEPT !.extras.wides = @ + 1]
              ELSE IF ball.isNoBall THEN [t1 EXCEPT !.extras.noBalls = @ + 1]
              ELSE IF ball.isBye THEN [t1 EXCEPT !.extras.byes = @ + ball.runs]
              ELSE IF ball.isLegBye THEN [t1 EXCEPT !.extras.legByes = @ + ball.runs]
              ELSE t1
        t3 == IF ball.isWicket THEN [t2 EXCEPT !.wickets = @ + 1] ELSE t2
    IN  IF ~ball.isWide /\ ~ball.isNoBall
        THEN IF t3.balls + 1 >= BallsPerOver
             THEN [t3 EXCEPT !.overs = @ + 1, !.balls = 0]
             ELSE [t3 EXCEPT !.balls = @ + 1]
        ELSE t3

\* SwapsStrike with wides and no-balls rotating on odd runs like legal balls
SwapsStrike_ExtrasByParity(t, ball) ==
    IF ~ball.isWide /\ ~ball.isNoBall
    THEN IF t.balls + 1 >= BallsPerOver THEN TRUE
         ELSE shouldRotateStrike(ball, FALSE)
    ELSE ball.runs % 2 = 1

\* SwapsStrike with the odd-run swap and the end-of-over swap both made
SwapsStrike_BothSwaps(t, ball) ==
    IF ~ball.isWide /\ ~ball.isNoBall
    THEN (t.balls + 1 >= BallsPerOver) # shouldRotateStrike(ball, FALSE)
    ELSE ball.runs > 1

\* whether processBall swaps striker and non-striker for this delivery
SwapsStrike(t, ball) ==
    IF ~ball.isWide /\ ~ball.isNoBall
    THEN IF t.balls + 1 >= BallsPerOver THEN TRUE
         ELSE shouldRotateStrike(ball, FALSE)
    ELSE ball.runs > 1

\* processBall(match, ball): the returned Match is a shallow copy; the ball
\* array and the batting team object are the argument's own, changed in place
processBall(m, tm, arr, ball) ==
    LET t == tm[m.battingTeam]
        swapped == [m EXCEPT !.currentStriker = m.currentNonStriker,
                             !.currentNonStriker = m.currentStriker]
    IN  [match  |-> IF SwapsStrike(t, ball) THEN swapped ELSE m,
         teams  |-> [tm EXCEPT ![m.battingTeam] = TeamAfterBall(t, ball)],
         arrays |-> [arr EXCEPT ![m.balls] = Append(@, ball)]]

getMatchResult(m, tm) ==
    LET chasingTeam == tm[m.battingTeam]
        defendingTeam == tm[m.bowlingTeam]
    IN  IF ~m.isCompleted THEN ResultText("Match in progress", "", 0)
        ELSE IF m.isSecondInnings /\ Truthy(m.firstInningsScore)
        THEN IF chasingTeam.score > m.firstInningsScore
             THEN ResultText("won by wickets", chasingTeam.name, AllOut - chasingTeam.wickets)
             ELSE IF chasingTeam.score < m.firstInningsScore
             THEN ResultText("won by runs", defendingTeam.name,
                             m.firstInningsScore - chasingTeam.score)
             ELSE ResultText("Match tied", "", 0)
        ELSE ResultText("Match completed", "", 0)

\* calculatePlayerPerformance: the three sub-scores, each held times 10
\* (the code's weights 1.5, 0.4, 0.2 and 0.1 are tenths)
calculatePlayerPerformance(player, log) ==
    LET faced(b) == b.striker = player
        battingBalls == SelectSeq(log, faced)
        offBat(b) == ~b.isWide /\ ~b.isNoBall /\ ~b.isBye /\ ~b.isLegBye
        four(b) == b.runs = 4
        six(b) == b.runs = 6
        out(b) == b.isWicket
        dot(b) == Legal(b) /\ b.runs = 0
        runsScored == SumRuns(SelectSeq(battingBalls, offBat))
        ballsFaced == Len(SelectSeq(battingBalls, Legal))
        fours == Len(SelectSeq(battingBalls, four))
        sixes == Len(SelectSeq(battingBalls, six))
        gotOut == Len(SelectSeq(battingBalls, out)) > 0
        battingScore ==
            IF ballsFaced > 0
            THEN runsScored * 15
                 + (IF runsScored * 100 >= 150 * ballsFaced THEN runsScored * 4
                    ELSE IF runsScored * 100 >= 120 * ballsFaced THEN runsScored * 2
                    ELSE IF runsScored * 100 < 80 * ballsFaced /\ ballsFaced >= 10
                    THEN 0 - runsScored
                    ELSE 0)
                 + (IF runsScored >= 100 THEN 500
                    ELSE IF runsScored >= 50 THEN 250
                    ELSE IF runsScored >= 30 THEN 100 ELSE 0)
                 + fours * 20 + sixes * 40
                 + (IF ~gotOut /\ runsScored >= 20 THEN 100 ELSE 0)
                 - (IF gotOut /\ runsScored = 0 THEN 100 ELSE 0)
            ELSE 0
        bowled(b) == b.bowler = player
        bowlingBalls == SelectSeq(log, bowled)
        took(b) == b.isWicket /\ b.wicketType # "run_out"
        ballsBowled == Len(SelectSeq(bowlingBalls, Legal))
        dotBalls == Len(SelectSeq(bowlingBalls, dot))
        wicketsTaken == Len(SelectSeq(bowlingBalls, took))
        runsConceded == SumRuns(bowlingBalls)
        bowlingScore ==
            IF ballsBowled > 0
            THEN wicketsTaken * 250
                 + (IF runsConceded * 6 <= 4 * ballsBowled THEN 200
                    ELSE IF runsConceded * 6 <= 6 * ballsBowled THEN 100
                    ELSE IF runsConceded * 6 >= 10 * ballsBowled THEN 0 - 100
                    ELSE 0)
                 + (IF dotBalls * 100 >= 60 * ballsBowled THEN 150
                    ELSE IF dotBalls * 100 >= 40 * ballsBowled THEN 80 ELSE 0)
                 + (IF wicketsTaken >= 5 THEN 300
                    ELSE IF wicketsTaken >= 3 THEN 150 ELSE 0)
            ELSE 0
        caught(b) == b.isWicket /\ b.wicketType = "caught" /\ b.fielder = player
        ranOut(b) == b.isWicket /\ b.wicketType = "run_out" /\ b.fielder = player
        stumped(b) == b.isWicket /\ b.wicketType = "stumped" /\ b.fielder = player
        fieldingScore == Len(SelectSeq(log, caught)) * 80
                         + Len(SelectSeq(log, ranOut)) * 120
                         + Len(SelectSeq(log, stumped)) * 100
    IN  [playerId |-> player, battingScore |-> battingScore,
         bowlingScore |-> bowlingScore, fieldingScore |-> fieldingScore,
         totalScore |-> battingScore + bowlingScore + fieldingScore]

\* TopPerformer with the last of the players level on the highest total
TopPerformer_LastOfLevel(performances) ==
    LET best == CHOOSE i \in 1..Len(performances) :
                    /\ \A j \in 1..Len(performances) :
                           performances[j].totalScore <= performances[i].totalScore
                    /\ \A j \in (i + 1)..Len(performances) :
                           performances[j].totalScore < performances[i].totalScore
    IN  performances[best]

\* Array.prototype.sort with (a, b) => b.totalScore - a.totalScore is stable:
\* the first element after sorting is the earliest one with the highest total
TopPerformer(performances) ==
    LET best == CHOOSE i \in 1..Len(performances) :
                    /\ \A j \in 1..Len(performances) :
                           performances[j].totalScore <= performances[i].totalScore
                    /\ \A j \in 1..(i - 1) :
                           performances[j].totalScore < performances[i].totalScore
    IN  performances[best]

\* calculateManOfTheMatch with the batsman on strike preferred
calculateManOfTheMatch_StrikerFirst(m, tm, arr) ==
    LET allPlayers == tm["team1"].players \o tm["team2"].players
        all == [i \in 1..Len(allPlayers) |->
                    calculatePlayerPerformance(allPlayers[i], arr[m.balls])]
        took(p) == p.totalScore > 0
        performances == SelectSeq(all, took)
        onStrike(p) == p.playerId = m.currentStriker
    IN  IF ~m.isCompleted THEN NoPlayer
        ELSE IF Len(performances) = 0 THEN NoPlayer
        ELSE IF Len(SelectSeq(performances, onStrike)) > 0 THEN m.currentStriker
        ELSE TopPerformer(performances).playerId

calculateManOfTheMatch(m, tm, arr) ==
    LET allPlayers == tm["team1"].players \o tm["team2"].players
        all == [i \in 1..Len(allPlayers) |->
                    calculatePlayerPerformance(allPlayers[i], arr[m.balls])]
        took(p) == p.totalScore > 0
        performances == SelectSeq(all, took)
    IN  IF ~m.isCompleted THEN NoPlayer
        ELSE IF Len(performances) = 0 THEN NoPlayer
        ELSE TopPerformer(performances).playerId

----------------------------------------------------------------------------
(* Deliveries the ScoringPanel can build *)

\* run buttons (of 0, 1, 2, 3, 4, 6) and extra-run choices (of 1..6) explored
RunChoices == {0, 1, 2, 4}
ExtraRunChoices == {1, 2}
ExtraTypes == {"wide", "noBall", "bye", "legBye"}
\* wicket kinds without a fielder (of bowled, lbw, hit_wicket) and with one
PlainWicketTypes == {"bowled"}
FielderWicketTypes == {"run_out"}

Ball(id, overNumber, bowler, striker, nonStriker, runs, extra, wicketType, fielder) ==
    [id |-> id, overNumber |-> overNumber,
     bowler |-> bowler, striker |-> striker, nonStriker |-> nonStriker,
     runs |-> runs,
     isWide |-> extra = "wide", isNoBall |-> extra = "noBall",
     isBye |-> extra = "bye", isLegBye |-> extra = "legBye",
     isWicket |-> wicketType # "none", wicketType |-> wicketType, fielder |-> fielder]

\* a delivery other than a dot ball
Eventful(b) == b.runs # 0 \/ b.isWicket \/ b.isWide \/ b.isNoBall \/ b.isBye \/ b.isLegBye

CountEventful(s) == Len(SelectSeq(s, Eventful))

\* ids are unique: the smallest number no live ball carries
FreshId(s, h) ==
    LET used == {s[i].id : i \in 1..Len(s)} \cup {h[i].id : i \in 1..Len(h)}
    IN  CHOOSE n \in 1..(Len(s) + Len(h) + 1) : n \notin used

\* the log may take this delivery within the bounds
WithinBounds(log, b) ==
    /\ Len(log) < MaxBalls
    /\ Eventful(b) => CountEventful(log) < MaxEventful

----------------------------------------------------------------------------
(* SpecEngine: processBall on a fresh match, the result fed back in *)

NoCall == [made |-> FALSE]

IdleUi == [showBowlerSelector |-> FALSE, showNewBatsmanSelector |-> FALSE,
           showInningsBreak |-> FALSE, showInningsSetup |-> FALSE,
           needsBowlerChange |-> FALSE, needsNewBatsman |-> FALSE,
           showAddPlayerModal |-> FALSE, showVictoryAnimation |-> FALSE]

NoPanel == [striker |-> NoPlayer, nonStriker |-> NoPlayer, bowler |-> NoPlayer]
NoQuery == [fn |-> "none"]
NotReported == [stage |-> "none"]
\* no cloud storage in play
NoCloud == [isOnline |-> FALSE]

EngineInit ==
    /\ match = NewMatch(2)
    /\ teams = FreshTeams
    /\ ballArrays = [a \in {1} |-> <<>>]
    /\ lastCall = NoCall
    /\ actionHistory = <<>>
    /\ panel = NoPanel
    /\ ui = IdleUi
    /\ reported = NotReported
    /\ query = NoQuery
    /\ undoCount = 0
    /\ cloud = NoCloud

\* the deliveries offered to processBall: built as createBall builds them
EngineBalls ==
    LET t == teams[match.battingTeam]
        id == FreshId(ballArrays[match.balls], <<>>)
        mk(runs, extra, wt, f) ==
            Ball(id, t.overs + 1, match.currentBowler, match.currentStriker,
                 match.currentNonStriker, runs, extra, wt, f)
    IN  {mk(r, "none", "none", NoPlayer) : r \in RunChoices}
        \cup {mk(r, e, "none", NoPlayer) : r \in ExtraRunChoices, e \in ExtraTypes}
        \cup {mk(0, "none", w, NoPlayer) : w \in PlainWicketTypes}
        \cup {mk(0, "none", w, "b2") : w \in FielderWicketTypes}
        \cup {mk(1, "noBall", "run_out", "b2")}

\* one call updatedMatch = processBall(match, ball); match := updatedMatch
CallProcessBall(ball) ==
    LET r == processBall(match, teams, ballArrays, ball)
    IN  /\ WithinBounds(ballArrays[match.balls], ball)
        /\ match' = r.match
        /\ teams' = r.teams
        /\ ballArrays' = r.arrays
        /\ lastCall' = [made |-> TRUE, stage |-> "recorded", ball |-> ball,
                        argBefore |-> Deep(match, teams, ballArrays),
                        argAfter |-> Deep(match, r.teams, r.arrays),
                        result |-> Deep(r.match, r.teams, r.arrays)]
        /\ UNCHANGED <<actionHistory, panel, ui, reported, query, undoCount, cloud>>

EngineNext == \E ball \in EngineBalls : CallProcessBall(ball)

SpecEngine == EngineInit /\ [][EngineNext]_vars

BattingTeam == teams[match.battingTeam]
Log == ballArrays[match.balls]

\* C1: the batting team's score is the sum of the runs of every delivery in
\* the ball log, whatever deliveries processBall was given
C1_ScoreConservation == BattingTeam.score = SumRuns(Log)

C1_Witness ==
    /\ Len(Log) >= 3
    /\ \E i \in 1..Len(Log) : Log[i].isWide /\ Log[i].runs = 2
    /\ \E i \in 1..Len(Log) : Log[i].isLegBye
    /\ BattingTeam.score = 4

\* C2: only deliveries that are neither wide nor no-ball count as balls; the
\* sixth of an over adds one to overs and resets balls to 0 in the same call,
\* so balls stays in 0..5 and overs*6 + balls is the number of legal deliveries
C2_BallCounting ==
    /\ BattingTeam.balls \in 0..(BallsPerOver - 1)
    /\ BattingTeam.overs * BallsPerOver + BattingTeam.balls = CountLegal(Log)
    /\ lastCall.made =>
         LET b == lastCall.argBefore.battingTeam
             a == lastCall.result.battingTeam
         IN  IF ~Legal(lastCall.ball) THEN a.balls = b.balls /\ a.overs = b.overs
             ELSE IF b.balls = BallsPerOver - 1 THEN a.overs = b.overs + 1 /\ a.balls = 0
             ELSE a.overs = b.overs /\ a.balls = b.balls + 1

C2_Witness ==
    /\ BattingTeam.overs = 1 /\ BattingTeam.balls = 0
    /\ \E i \in 1..Len(Log) : Log[i].isNoBall
    /\ Len(Log) = 7

CallSwapped ==
    /\ lastCall.result.currentStriker = lastCall.argBefore.currentNonStriker
    /\ lastCall.result.currentNonStriker = lastCall.argBefore.currentStriker
CallKeptEnds ==
    /\ lastCall.result.currentStriker = lastCall.argBefore.currentStriker
    /\ lastCall.result.currentNonStriker = lastCall.argBefore.currentNonStriker
CallCompletedOver ==
    lastCall.result.battingTeam.overs = lastCall.argBefore.battingTeam.overs + 1

\* C3: for a legal delivery, mid-over the batsmen swap ends iff the runs are
\* odd; on the delivery that completes the over they swap exactly once
C3_StrikeRotationParity ==
    (lastCall.made /\ Legal(lastCall.ball)) =>
        /\ lastCall.argBefore.currentStriker # lastCall.argBefore.currentNonStriker
        /\ IF CallCompletedOver THEN CallSwapped
           ELSE IF lastCall.ball.runs % 2 = 1 THEN CallSwapped ELSE CallKeptEnds

C3_Witness ==
    /\ lastCall.made /\ Legal(lastCall.ball)
    /\ CallCompletedOver /\ lastCall.ball.runs = 1 /\ CallSwapped

\* C10: processBall leaves the match it was given as it was: same ball log,
\* same batting-team score, wickets, overs, balls and extras
C10_ProcessBallPure ==
    lastCall.made =>
        /\ Len(lastCall.argAfter.balls) = Len(lastCall.argBefore.balls)
        /\ lastCall.argAfter.battingTeam = lastCall.argBefore.battingTeam

\* C14: for a wide or a no-ball processBall adds the runs to the score, adds
\* exactly 1 to the matching counter (wides or noBalls), leaves balls, overs,
\* byes and leg-byes as they were, and swaps the batsmen iff runs > 1
C14_WideNoBallFrame ==
    (lastCall.made /\ ~Legal(lastCall.ball)) =>
        LET b == lastCall.argBefore.battingTeam
            a == lastCall.result.battingTeam
            ball == lastCall.ball
        IN  /\ a.score = b.score + ball.runs
            /\ IF ball.isWide
               THEN a.extras.wides = b.extras.wides + 1 /\ a.extras.noBalls = b.extras.noBalls
               ELSE a.extras.noBalls = b.extras.noBalls + 1 /\ a.extras.wides = b.extras.wides
            /\ a.balls = b.balls /\ a.overs = b.overs
            /\ a.extras.byes = b.extras.byes /\ a.extras.legByes = b.extras.legByes
            /\ IF ball.runs > 1 THEN CallSwapped ELSE CallKeptEnds

\* a wide for two, three balls into an over that already holds byes
C14_Witness ==
    /\ lastCall.made /\ lastCall.ball.isWide /\ lastCall.ball.runs = 2
    /\ lastCall.argBefore.battingTeam.balls = 3
    /\ lastCall.argBefore.battingTeam.extras.byes = 1
    /\ CallSwapped
    /\ lastCall.result.battingTeam.extras.wides = 1

----------------------------------------------------------------------------
(* SpecQuery: isInningsComplete and getMatchResult on bounded matches *)

WicketChoices == {0, 9, AllOut}

QueryInit ==
    /\ \E total \in {1, 2}, second \in BOOLEAN, done \in BOOLEAN,
          fis \in 0..MaxScore, sc \in 0..(MaxScore + 1),
          ov \in 0..2, w \in WicketChoices :
         /\ ov <= total
         /\ match = [NewMatch(total) EXCEPT
                       !.isSecondInnings = second,
                       !.firstInningsScore = IF second THEN fis ELSE Undefined,
                       !.isCompleted = done,
                       !.battingTeam = IF second THEN "team2" ELSE "team1",
                       !.bowlingTeam = IF second THEN "team1" ELSE "team2"]
         /\ teams = [r \in TeamRefs |->
                       IF r = (IF second THEN "team2" ELSE "team1")
                       THEN [FreshTeams[r] EXCEPT !.score = sc, !.overs = ov, !.wickets = w]
                       ELSE [FreshTeams[r] EXCEPT !.score = IF second THEN fis ELSE 0]]
    /\ ballArrays = [a \in {1} |-> <<>>]
    /\ lastCall = NoCall
    /\ actionHistory = <<>>
    /\ panel = NoPanel
    /\ ui = IdleUi
    /\ reported = NotReported
    /\ query = NoQuery
    /\ undoCount = 0
    /\ cloud = NoCloud

AskInningsComplete ==
    /\ query' = [fn |-> "isInningsComplete", complete |-> isInningsComplete(match, teams)]
    /\ UNCHANGED <<match, teams, ballArrays, lastCall, actionHistory, panel, ui, reported, undoCount, cloud>>

AskMatchResult ==
    /\ query' = [fn |-> "getMatchResult", text |-> getMatchResult(match, teams)]
    /\ UNCHANGED <<match, teams, ballArrays, lastCall, actionHistory, panel, ui, reported, undoCount, cloud>>

QueryNext == AskInningsComplete \/ AskMatchResult

SpecQuery == QueryInit /\ [][QueryNext]_vars

\* C5: isInningsComplete is true exactly when the overs are used up, or ten
\* wickets are down, or (second innings) the score is above the first-innings
\* score, for every first-innings score including 0
C5_InningsTermination ==
    query.fn = "isInningsComplete" =>
        query.complete =
            (\/ BattingTeam.overs >= match.totalOvers
             \/ BattingTeam.wickets >= AllOut
             \/ match.isSecondInnings /\ BattingTeam.score > match.firstInningsScore)

\* C9: on a completed second-innings match getMatchResult names the chasing
\* team by 10 - wickets when it is ahead, the defending team by the run
\* difference when it is behind, and a tie when level, also for a target of 0
C9_MatchResult ==
    (query.fn = "getMatchResult" /\ match.isCompleted /\ match.isSecondInnings) =>
        query.text =
            IF BattingTeam.score > match.firstInningsScore
            THEN ResultText("won by wickets", BattingTeam.name, 10 - BattingTeam.wickets)
            ELSE IF BattingTeam.score < match.firstInningsScore
            THEN ResultText("won by runs", teams[match.bowlingTeam].name,
                            match.firstInningsScore - BattingTeam.score)
            ELSE ResultText("Match tied", "", 0)

----------------------------------------------------------------------------
(* SpecLive: the LiveScorer built on CricketEngine.processBall, with the   *)
(* ScoringPanel.  Every modal is a full-screen overlay (fixed inset-0), so *)
(* only the topmost one takes clicks and the panel takes none while a      *)
(* modal is up.  setMatch calls of one handler are batched: the last wins. *)

\* deliveries recorded in one scoring session, and those of them that may be
\* anything but a dot ball
MaxLiveBalls == 3
MaxLiveEventful == 1

\* undo clicks explored in one run
MaxUndos == 1

\* buttons explored in live scoring
LiveRunChoices == {0, 1}
LiveExtraRunChoices == {1}
LiveExtraTypes == {"wide"}
TotalOversChoices == {1, 2}

Players(seq) == {seq[i] : i \in 1..Len(seq)}

\* the first two of a side
Openers(t) == {t.players[1], t.players[2]}

\* TopModal with the victory animation behind the page
TopModal_VictoryBehind ==
    IF reported.stage = "delivered" THEN "unmounted"
    ELSE IF ui.showAddPlayerModal THEN "addPlayer"
    ELSE IF ui.showNewBatsmanSelector THEN "newBatsman"
    ELSE IF ui.showBowlerSelector THEN "bowler"
    ELSE IF ui.showInningsSetup THEN "inningsSetup"
    ELSE IF ui.showInningsBreak THEN "inningsBreak"
    ELSE "none"

\* the modal that takes the clicks: the last one in document order
TopModal ==
    IF reported.stage = "delivered" THEN "unmounted"
    ELSE IF ui.showVictoryAnimation THEN "victory"
    ELSE IF ui.showAddPlayerModal THEN "addPlayer"
    ELSE IF ui.showNewBatsmanSelector THEN "newBatsman"
    ELSE IF ui.showBowlerSelector THEN "bowler"
    ELSE IF ui.showInningsSetup THEN "inningsSetup"
    ELSE IF ui.showInningsBreak THEN "inningsBreak"
    ELSE "none"

\* ScoringPanel effect: the local bowler follows match.currentBowler
PanelSync(pn, m) ==
    IF m.currentBowler # NoPlayer /\ m.currentBowler # pn.bowler
    THEN [pn EXCEPT !.bowler = m.currentBowler]
    ELSE pn

\* handleBowlerChange's update of the match
changeBowler(m, newBowler) ==
    [m EXCEPT !.previousBowler = m.currentBowler, !.currentBowler = newBowler]

\* the team object handleInningsBreakContinue resets
ResetTeam(t) ==
    [t EXCEPT !.score = 0, !.overs = 0, !.balls = 0, !.wickets = 0, !.extras = NoExtras]

\* inningsBreakContinue with firstInningsScore read after the swap and reset
inningsBreakContinue_ScoreAfterSwap(m, tm) ==
    [match |-> [m EXCEPT !.isSecondInnings = TRUE,
                         !.battingTeam = m.bowlingTeam,
                         !.bowlingTeam = m.battingTeam,
                         !.firstInningsScore = ResetTeam(tm[m.bowlingTeam]).score,
                         !.currentStriker = NoPlayer,
                         !.currentNonStriker = NoPlayer,
                         !.currentBowler = NoPlayer],
     teams |-> [tm EXCEPT ![m.bowlingTeam] = ResetTeam(@)]]

\* handleInningsBreakContinue's update of the match and of the new batting team
inningsBreakContinue(m, tm) ==
    [match |-> [m EXCEPT !.isSecondInnings = TRUE,
                         !.battingTeam = m.bowlingTeam,
                         !.bowlingTeam = m.battingTeam,
                         !.firstInningsScore = tm[m.battingTeam].score,
                         !.currentStriker = NoPlayer,
                         !.currentNonStriker = NoPlayer,
                         !.currentBowler = NoPlayer],
     teams |-> [tm EXCEPT ![m.bowlingTeam] = ResetTeam(@)]]

\* handleInningsSetup's update of the match
inningsSetup(m, striker, nonStriker, bowler) ==
    [m EXCEPT !.currentStriker = striker, !.currentNonStriker = nonStriker,
              !.currentBowler = bowler]

\* getAvailableBatsmen(): the batting roster less the two at the crease
getAvailableBatsmen(m, tm) ==
    SelectSeq(tm[m.battingTeam].players,
              LAMBDA p : p # m.currentStriker /\ p # m.currentNonStriker)

\* handleNewBatsman's update of the match
newBatsman(m, player) == [m EXCEPT !.currentStriker = player]

\* One step of an earlier scoring session, on [match, teams, arrays]: a
\* delivery by the current bowler to the panel's batsmen, or a selection
SessionStep(w, s) ==
    CASE s.op = "ball" ->
           processBall(w.match, w.teams, w.arrays,
                       Ball(Len(w.arrays[w.match.balls]) + 1,
                            w.teams[w.match.battingTeam].overs + 1,
                            w.match.currentBowler, s.striker, s.nonStriker,
                            s.runs, "none", "none", NoPlayer))
      [] s.op = "wicket" ->
           processBall(w.match, w.teams, w.arrays,
                       Ball(Len(w.arrays[w.match.balls]) + 1,
                            w.teams[w.match.battingTeam].overs + 1,
                            w.match.currentBowler, w.match.currentStriker,
                            w.match.currentNonStriker, 0, "none", "bowled", NoPlayer))
      [] s.op = "batsman" ->
           [w EXCEPT !.match = newBatsman(w.match, Head(getAvailableBatsmen(w.match, w.teams)))]
      [] s.op = "bowler" -> [w EXCEPT !.match = changeBowler(w.match, s.player)]
      [] s.op = "continue" ->
           LET c == inningsBreakContinue(w.match, w.teams)
           IN  [w EXCEPT !.match = c.match, !.teams = c.teams]
      [] s.op = "setup" ->
           [w EXCEPT !.match = inningsSetup(w.match, s.striker, s.nonStriker, s.player)]

\* the steps of a session in order; scoring stops with the match
RECURSIVE Session(_, _)
Session(w, script) ==
    IF script = <<>> \/ w.match.isCompleted THEN w
    ELSE Session(SessionStep(w, Head(script)), Tail(script))

FreshWorld(total) == [match |-> NewMatch(total), teams |-> FreshTeams,
                      arrays |-> [a \in {1} |-> <<>>]]

BallStep(striker, nonStriker, runs) ==
    [op |-> "ball", striker |-> striker, nonStriker |-> nonStriker, runs |-> runs]

BowlerStep(p) == [op |-> "bowler", player |-> p]

\* five balls into the first over of the first innings
FirstOverScript == [i \in 1..(BallsPerOver - 1) |-> BallStep("a1", "a2", 0)]

\* the first innings of a one-over match ending on `fis`, the break, the
\* setup, and five balls of the reply with a single off the first, the bowler
\* changed after each as the scorer demands
SecondInningsScript(fis) ==
    <<BallStep("a1", "a2", fis)>> \o FirstOverScript \o
    <<[op |-> "continue"],
      [op |-> "setup", striker |-> "b1", nonStriker |-> "b2", player |-> "a1"],
      BallStep("b1", "b2", 1), BowlerStep("a2"),
      BallStep("b1", "b2", 0), BowlerStep("a3"),
      BallStep("b1", "b2", 0), BowlerStep("a1"),
      BallStep("b1", "b2", 0), BowlerStep("a2"),
      BallStep("b1", "b2", 0), BowlerStep("a3")>>

\* wickets down in the saved first innings that is one wicket from all out
SavedWickets == AllOut - 1

\* nine batsmen bowled in a row, each replaced by the first player listed
NineDownScript ==
    [i \in 1..(2 * SavedWickets) |->
        IF i % 2 = 1 THEN [op |-> "wicket"] ELSE [op |-> "batsman"]]

\* first innings totals the saved replies chase
SavedFirstInningsScores == {0, 1}

\* The match the scorer starts from: the one handed over by the match setup,
\* or the saved copy of it that the load effect puts in its place on mount
StartWorlds ==
    {FreshWorld(total) : total \in TotalOversChoices}
    \cup {Session(FreshWorld(total), FirstOverScript) : total \in TotalOversChoices}
    \cup {Session(FreshWorld(1), SecondInningsScript(fis)) : fis \in SavedFirstInningsScores}
    \cup {Session(FreshWorld(2), NineDownScript)}

LiveInit ==
    /\ \E w \in StartWorlds :
          /\ match = w.match
          /\ teams = w.teams
          /\ ballArrays = w.arrays
          /\ panel = [striker |-> NoPlayer, nonStriker |-> NoPlayer,
                      bowler |-> w.match.currentBowler]
    /\ lastCall = NoCall
    /\ actionHistory = <<>>
    /\ ui = IdleUi
    /\ reported = NotReported
    /\ query = NoQuery
    /\ undoCount = 0
    /\ cloud = NoCloud

LiveWithinBounds(b) ==
    /\ Len(actionHistory) < MaxLiveBalls
    /\ Eventful(b) => CountEventful(actionHistory) < MaxLiveEventful

\* createBall / handleExtraType with the panel's local players
PanelBall(runs, extra, wt, f, withOver) ==
    Ball(FreshId(Log, actionHistory),
         IF withOver THEN BattingTeam.overs + 1 ELSE 0,
         panel.bowler, panel.striker, panel.nonStriker, runs, extra, wt, f)

\* handleMatchComplete, called inside handleScoreUpdate: it copies the
\* `match` of the render (not updatedMatch); the heap is the one processBall
\* has already changed
handleMatchComplete(m, tm, arr) ==
    LET done == [m EXCEPT !.isCompleted = TRUE]
        named == [done EXCEPT !.winner = getMatchResult(done, tm)]
        motm == calculateManOfTheMatch(named, tm, arr)
    IN  IF motm # NoPlayer THEN [named EXCEPT !.manOfTheMatch = motm] ELSE named

\* handleScoreUpdate(ball)
HandleScoreUpdate(ball) ==
    LET r == processBall(match, teams, ballArrays, ball)
        updatedMatch == r.match
        overComplete == isOverComplete(updatedMatch, r.teams, r.arrays)
        nextOver == r.teams[updatedMatch.battingTeam].overs + 1
        availableBowlers == getAvailableBowlers(updatedMatch, r.teams, r.arrays, nextOver)
        inningsComplete == isInningsComplete(updatedMatch, r.teams)
        matchComplete == inningsComplete /\ updatedMatch.isSecondInnings
        completed == handleMatchComplete(match, r.teams, r.arrays)
        \* with three-player rosters availableBowlers is never empty, so the
        \* add-player modal stays closed
        ui1 == IF overComplete
               THEN IF Len(availableBowlers) = 0
                    THEN [ui EXCEPT !.needsBowlerChange = TRUE, !.showAddPlayerModal = TRUE]
                    ELSE [ui EXCEPT !.needsBowlerChange = TRUE, !.showBowlerSelector = TRUE]
               ELSE ui
        ui2 == IF ball.isWicket
               THEN [ui1 EXCEPT !.needsNewBatsman = TRUE, !.showNewBatsmanSelector = TRUE]
               ELSE ui1
        ui3 == IF inningsComplete
               THEN IF ~updatedMatch.isSecondInnings
                    THEN [ui2 EXCEPT !.showInningsBreak = TRUE]
                    ELSE [ui2 EXCEPT !.showVictoryAnimation = TRUE]
               ELSE ui2
    IN  /\ LiveWithinBounds(ball)
        /\ actionHistory' = Append(actionHistory, ball)
        /\ match' = updatedMatch
        /\ teams' = r.teams
        /\ ballArrays' = r.arrays
        /\ ui' = ui3
        /\ panel' = PanelSync(panel, updatedMatch)
        /\ reported' = IF matchComplete
                       THEN [stage |-> "pending",
                             match |-> Deep(completed, r.teams, r.arrays),
                             stored |-> Deep(updatedMatch, r.teams, r.arrays)]
                       ELSE reported
        /\ lastCall' = [made |-> TRUE, stage |-> "recorded", ball |-> ball,
                        argBefore |-> Deep(match, teams, ballArrays),
                        argAfter |-> Deep(match, r.teams, r.arrays),
                        result |-> Deep(updatedMatch, r.teams, r.arrays)]
        /\ UNCHANGED <<query, undoCount, cloud>>

\* ScoringPanel.handleRun
HandleRun ==
    /\ TopModal = "none"
    /\ panel.striker # NoPlayer /\ panel.nonStriker # NoPlayer /\ panel.bowler # NoPlayer
    /\ \E runs \in LiveRunChoices :
          HandleScoreUpdate(PanelBall(runs, "none", "none", NoPlayer, TRUE))

\* ScoringPanel.handleExtraRuns, the run choice, handleExtraType: no check of
\* the selections, and no over number on the ball; handleScoreUpdate's first
\* line reads ball.striker.name and ball.bowler.name and throws when one is null
HandleExtraType ==
    /\ TopModal = "none"
    /\ panel.striker # NoPlayer /\ panel.bowler # NoPlayer
    /\ \E runs \in LiveExtraRunChoices, type \in LiveExtraTypes :
          HandleScoreUpdate(PanelBall(runs, type, "none", NoPlayer, FALSE))

\* ScoringPanel.handleWicket with a wicket type that needs no fielder
HandleWicket ==
    /\ TopModal = "none"
    /\ panel.striker # NoPlayer /\ panel.nonStriker # NoPlayer /\ panel.bowler # NoPlayer
    /\ HandleScoreUpdate(PanelBall(0, "none", "bowled", NoPlayer, TRUE))

\* ScoringPanel.handlePlayerSelect for striker / nonStriker / bowler.  The
\* runs explored fill the ends in the order striker, non-striker, bowler, with
\* the openers in batting order and the first bowler, each when the panel
\* holds none of the right side
PanelSelect ==
    /\ TopModal = "none"
    /\ \/ /\ panel.striker \notin Players(BattingTeam.players)
          /\ panel' = PanelSync([panel EXCEPT !.striker = BattingTeam.players[1]], match)
       \/ /\ panel.striker \in Players(BattingTeam.players)
          /\ panel.nonStriker \notin Players(BattingTeam.players)
          /\ panel' = PanelSync([panel EXCEPT !.nonStriker = BattingTeam.players[2]], match)
       \/ /\ panel.striker \in Players(BattingTeam.players)
          /\ panel.nonStriker \in Players(BattingTeam.players)
          /\ panel.bowler \notin Players(teams[match.bowlingTeam].players)
          /\ panel' = PanelSync([panel EXCEPT !.bowler = teams[match.bowlingTeam].players[1]],
                                match)
    /\ panel' # panel
    /\ lastCall' = NoCall
    /\ UNCHANGED <<match, teams, ballArrays, actionHistory, ui, reported, query, undoCount, cloud>>

\* the players the bowler selector lists: getAvailableBowlers() less
\* excludePlayerIds, in roster order
OfferedBowlers ==
    SelectSeq(getAvailableBowlers(match, teams, ballArrays, BattingTeam.overs + 1),
              LAMBDA p : p \notin {match.currentBowler, match.previousBowler,
                                   match.currentStriker, match.currentNonStriker})

\* handleBowlerChange(newBowler), from the bowler selector; the runs explored
\* take the first player listed.  The selector's onClose is refused while
\* needsBowlerChange, which is set whenever the selector is the top modal
HandleBowlerChange ==
    /\ TopModal = "bowler"
    /\ Len(OfferedBowlers) > 0
    /\ LET newBowler == Head(OfferedBowlers)
       IN  /\ canBowlerBowlNextOver(newBowler, match, teams, ballArrays)
           /\ match' = changeBowler(match, newBowler)
           /\ panel' = PanelSync(panel, match')
    /\ ui' = [ui EXCEPT !.showBowlerSelector = FALSE, !.needsBowlerChange = FALSE]
    /\ lastCall' = NoCall
    /\ UNCHANGED <<teams, ballArrays, actionHistory, reported, query, undoCount, cloud>>

\* handleNewBatsman(newBatsman), offered getAvailableBatsmen()
HandleNewBatsman ==
    /\ TopModal = "newBatsman"
    /\ \E player \in Players(getAvailableBatsmen(match, teams)) :
          match' = newBatsman(match, player)
    /\ ui' = [ui EXCEPT !.showNewBatsmanSelector = FALSE, !.needsNewBatsman = FALSE]
    /\ panel' = PanelSync(panel, match')
    /\ lastCall' = NoCall
    /\ UNCHANGED <<teams, ballArrays, actionHistory, reported, query, undoCount, cloud>>

\* the new-batsman selector's onClose
CloseNewBatsmanSelector ==
    /\ TopModal = "newBatsman"
    /\ ui' = [ui EXCEPT !.showNewBatsmanSelector = FALSE, !.needsNewBatsman = FALSE]
    /\ lastCall' = NoCall
    /\ UNCHANGED <<match, teams, ballArrays, actionHistory, panel, reported, query, undoCount, cloud>>

\* handleInningsBreakContinue
HandleInningsBreakContinue ==
    /\ TopModal = "inningsBreak"
    /\ match' = inningsBreakContinue(match, teams).match
    /\ teams' = inningsBreakContinue(match, teams).teams
    /\ ui' = [ui EXCEPT !.showInningsBreak = FALSE, !.showInningsSetup = TRUE]
    /\ panel' = PanelSync(panel, match')
    /\ lastCall' = NoCall
    /\ UNCHANGED <<ballArrays, actionHistory, reported, query, undoCount, cloud>>

\* handleInningsSetup(striker, nonStriker, bowler): the modal offers every
\* stored player; the openers and the first bowler of the rosters are explored
HandleInningsSetup ==
    /\ TopModal = "inningsSetup"
    /\ match' = inningsSetup(match, BattingTeam.players[1], BattingTeam.players[2],
                             teams[match.bowlingTeam].players[1])
    /\ ui' = [ui EXCEPT !.showInningsSetup = FALSE]
    /\ panel' = PanelSync(panel, match')
    /\ lastCall' = NoCall
    /\ UNCHANGED <<teams, ballArrays, actionHistory, reported, query, undoCount, cloud>>

\* the innings-setup modal's Cancel
CloseInningsSetup ==
    /\ TopModal = "inningsSetup"
    /\ ui' = [ui EXCEPT !.showInningsSetup = FALSE]
    /\ lastCall' = NoCall
    /\ UNCHANGED <<match, teams, ballArrays, actionHistory, panel, reported, query, undoCount, cloud>>

\* the batting team object after handleUndo has taken lastBall back
TeamAfterUndo(t, lastBall) ==
    LET t1 == [t EXCEPT !.score = @ - lastBall.runs]
        t2 == IF lastBall.isWide THEN [t1 EXCEPT !.extras.wides = @ - 1]
              ELSE IF lastBall.isNoBall THEN [t1 EXCEPT !.extras.noBalls = @ - 1]
              ELSE IF lastBall.isBye THEN [t1 EXCEPT !.extras.byes = @ - lastBall.runs]
              ELSE IF lastBall.isLegBye THEN [t1 EXCEPT !.extras.legByes = @ - lastBall.runs]
              ELSE t1
        t3 == IF lastBall.isWicket THEN [t2 EXCEPT !.wickets = @ - 1] ELSE t2
    IN  IF ~lastBall.isWide /\ ~lastBall.isNoBall
        THEN IF t3.balls = 0 /\ t3.overs > 0
             THEN [t3 EXCEPT !.overs = @ - 1, !.balls = BallsPerOver - 1]
             ELSE [t3 EXCEPT !.balls = @ - 1]
        ELSE t3

\* handleUndo: the filtered ball array is a new array; the array it replaces
\* is referenced by nothing else, so it keeps the reference here
HandleUndo ==
    /\ TopModal = "none"
    /\ Len(actionHistory) > 0
    /\ undoCount < MaxUndos
    /\ LET lastBall == actionHistory[Len(actionHistory)]
           keep(b) == b.id # lastBall.id
       IN  /\ ballArrays' = [ballArrays EXCEPT ![match.balls] = SelectSeq(@, keep)]
           /\ teams' = [teams EXCEPT ![match.battingTeam] = TeamAfterUndo(@, lastBall)]
    /\ actionHistory' = SubSeq(actionHistory, 1, Len(actionHistory) - 1)
    /\ ui' = [ui EXCEPT !.needsBowlerChange = FALSE, !.needsNewBatsman = FALSE]
    /\ lastCall' = IF lastCall.made /\ lastCall.stage = "recorded"
                   THEN [lastCall EXCEPT !.stage = "undone"]
                   ELSE NoCall
    /\ undoCount' = undoCount + 1
    /\ UNCHANGED cloud
    /\ UNCHANGED <<match, panel, reported, query>>

\* the 3 s timer of handleMatchComplete: onMatchComplete(updatedMatch); the
\* application leaves the live scorer
VictoryTimeout ==
    /\ reported.stage = "pending"
    /\ reported' = [reported EXCEPT !.stage = "delivered"]
    /\ ui' = [ui EXCEPT !.showVictoryAnimation = FALSE]
    /\ UNCHANGED <<match, teams, ballArrays, lastCall, actionHistory, panel, query,
                   undoCount, cloud>>

LiveNext ==
    \/ HandleRun
    \/ HandleExtraType
    \/ HandleWicket
    \/ PanelSelect
    \/ HandleBowlerChange
    \/ HandleNewBatsman
    \/ CloseNewBatsmanSelector
    \/ HandleInningsBreakContinue
    \/ HandleInningsSetup
    \/ CloseInningsSetup
    \/ HandleUndo
    \/ VictoryTimeout

SpecLive == LiveInit /\ [][LiveNext]_vars

----------------------------------------------------------------------------
(* Claims about live scoring *)

\* deliveries i and j of the log are of consecutive overs, j's the later
ConsecutiveOvers(i, j) ==
    /\ Log[i].overNumber >= 1
    /\ Log[j].overNumber = Log[i].overNumber + 1

\* C4: while the first innings is being scored, no delivery of an over n > 1
\* in the ball log has the bowler of a delivery of over n-1
C4_BowlerRotation ==
    ~match.isSecondInnings =>
        \A i, j \in 1..Len(Log) :
            ConsecutiveOvers(i, j) => Log[i].bowler # Log[j].bowler

\* what the undo round trip is to restore
UndoView(d) ==
    [balls |-> d.balls, score |-> d.battingTeam.score, extras |-> d.battingTeam.extras,
     wickets |-> d.battingTeam.wickets, overs |-> d.battingTeam.overs,
     ballsInOver |-> d.battingTeam.balls,
     currentStriker |-> d.currentStriker, currentNonStriker |-> d.currentNonStriker]

JustUndone == lastCall.made /\ lastCall.stage = "undone"

\* C7: recording a delivery and then undoing it gives back the ball log, the
\* score, extras, wickets, overs and balls counters and the two batsmen of the
\* match before the delivery
C7_UndoRoundTrip ==
    JustUndone => UndoView(Deep(match, teams, ballArrays)) = UndoView(lastCall.argBefore)

\* the handler of the delivery that ended the second innings has returned
CompletionHandled == reported.stage = "pending"

\* C8: once the delivery that completes the second innings is handled, the
\* scorer's match has isCompleted, the winner getMatchResult gives for it and
\* the man of the match the Performance Scorer gives
C8_CompletionStored ==
    CompletionHandled =>
        /\ match.isCompleted
        /\ match.winner = getMatchResult(match, teams)
        /\ match.manOfTheMatch = calculateManOfTheMatch(match, teams, ballArrays)

\* C13: continuing to the second innings sets firstInningsScore to the score
\* of the side that batted first, swaps battingTeam and bowlingTeam, leaves
\* the first-innings side's team object as it was, resets the new batting
\* side's score, overs, balls, wickets and extras to 0, and clears the
\* current striker, non-striker and bowler
C13_InningsSwitch ==
    [][(~match.isSecondInnings /\ match'.isSecondInnings) =>
          /\ match'.firstInningsScore = teams[match.battingTeam].score
          /\ match'.battingTeam = match.bowlingTeam
          /\ match'.bowlingTeam = match.battingTeam
          /\ teams'[match'.bowlingTeam] = teams[match.battingTeam]
          /\ LET t == teams'[match'.battingTeam]
             IN  /\ t.score = 0 /\ t.overs = 0 /\ t.balls = 0 /\ t.wickets = 0
                 /\ t.extras = NoExtras
          /\ match'.currentStriker = NoPlayer
          /\ match'.currentNonStriker = NoPlayer
          /\ match'.currentBowler = NoPlayer]_vars

\* the break has just been left after a first innings of one run for a wicket
C13_Witness ==
    /\ match.isSecondInnings /\ ui.showInningsSetup
    /\ match.currentStriker = NoPlayer
    /\ match.firstInningsScore = 1
    /\ teams[match.bowlingTeam].score = 1
    /\ teams[match.bowlingTeam].overs = 1
    /\ BattingTeam.score = 0

\* handleScoreUpdate has just handled a delivery
JustRecorded == lastCall.made /\ lastCall.stage = "recorded"

\* C15: when a wicket delivery brings the batting side to 10 wickets, the
\* new-batsman selection is not opened and the innings-complete transition
\* fires; a replacement is asked for only with fewer than 10 wickets down
C15_AllOutNoReplacement ==
    (JustRecorded /\ lastCall.ball.isWicket) =>
        IF lastCall.result.battingTeam.wickets >= AllOut
        THEN /\ ~ui.showNewBatsmanSelector
             /\ ui.showInningsBreak \/ ui.showVictoryAnimation
        ELSE TRUE

\* the new-batsman selection made right after a wicket delivery
ReplacementStep ==
    /\ JustRecorded /\ lastCall.ball.isWicket
    /\ ui.showNewBatsmanSelector /\ ~ui'.showNewBatsmanSelector
    /\ match' # match

\* C16: after a wicket delivery and the new-batsman selection the dismissed
\* striker is at neither end, the replacement is the striker, and the batsman
\* who was non-striker when the wicket fell is still at the crease, also when
\* the wicket falls on the last legal ball of an over
C16_DismissedReplaced ==
    [][ReplacementStep =>
          LET dismissed == lastCall.ball.striker
              survivor == lastCall.argBefore.currentNonStriker
              atCrease == {match'.currentStriker, match'.currentNonStriker}
          IN  /\ dismissed \notin atCrease
              /\ match'.currentStriker \notin {dismissed, survivor}
              /\ survivor \in atCrease]_vars

\* the ball log and both teams' counters
Scorebook ==
    <<Log, [r \in TeamRefs |-> <<teams[r].score, teams[r].wickets, teams[r].overs,
                                 teams[r].balls>>]>>

C22_TeamInInningsBounds ==
    /\ BattingTeam.wickets \in 0..AllOut
    /\ BattingTeam.balls \in 0..(BallsPerOver - 1)
    /\ BattingTeam.score >= 0
    /\ BattingTeam.overs >= 0
    /\ \A k \in DOMAIN BattingTeam.extras : BattingTeam.extras[k] >= 0

\* C23: the ball log changes only by one delivery appended at its end,
\* carrying the over number completed overs + 1 of the batting team at that
\* moment, or under undo by the removal of its most recent delivery
C23_BallLogConsistency ==
    [][\/ ballArrays'[match'.balls] = Log
       \/ /\ Len(ballArrays'[match'.balls]) = Len(Log) + 1
          /\ SubSeq(ballArrays'[match'.balls], 1, Len(Log)) = Log
          /\ ballArrays'[match'.balls][Len(Log) + 1].overNumber = BattingTeam.overs + 1
       \/ /\ Len(actionHistory') < Len(actionHistory)
          /\ Len(Log) > 0
          /\ ballArrays'[match'.balls] = SubSeq(Log, 1, Len(Log) - 1)]_vars

\* C24: isOverComplete on processBall's result, as handleScoreUpdate asks
\* it, is true exactly when the delivery just applied raised the completed
\* overs, in the first and in the second innings
C24_OverCompleteAgrees ==
    JustRecorded =>
        (isOverComplete(match, teams, ballArrays) <=> CallCompletedOver)

\* the scoring panel takes a delivery: no modal over it, and the selections
\* its handlers ask for
CanScore == TopModal = "none" /\ panel.striker # NoPlayer /\ panel.bowler # NoPlayer

\* this step appends a delivery to the ball log
AppendStep == Len(ballArrays'[match'.balls]) = Len(Log) + 1

\* this step closes a selector and chooses nobody
DismissStep ==
    /\ \/ ui.showNewBatsmanSelector /\ ~ui'.showNewBatsmanSelector
       \/ ui.showBowlerSelector /\ ~ui'.showBowlerSelector
    /\ match' = match

\* C28: a wicket delivery that leaves fewer than 10 wickets down, and a
\* delivery that completes an over of an innings still open, leave the scorer
\* unable to record, and closing a selector without a choice keeps it so
C28_SelectionsBlockScoring ==
    [][/\ (AppendStep /\ teams'[match'.battingTeam].wickets < AllOut
             /\ (\/ ballArrays'[match'.balls][Len(Log) + 1].isWicket
                 \/ /\ teams'[match'.battingTeam].overs = BattingTeam.overs + 1
                    /\ ~isInningsComplete(match', teams')))
            => ~CanScore'
       /\ DismissStep => ~CanScore']_vars

\* C29: a delivery appended to the ball log names as striker, non-striker and
\* bowler the match's currentStriker, currentNonStriker and currentBowler of
\* the moment it is recorded, also after the engine has rotated the strike
C29_DeliveryNamesCurrentPlayers ==
    [][AppendStep =>
          LET b == ballArrays'[match'.balls][Len(Log) + 1]
          IN  /\ b.striker = match.currentStriker
              /\ b.nonStriker = match.currentNonStriker
              /\ b.bowler = match.currentBowler]_vars

----------------------------------------------------------------------------
(* SpecSnap: the LiveScorer that scores inline and keeps Match snapshots   *)
(* for undo.  The ScoringPanel is mounted only while the match has a       *)
(* striker, a non-striker and a bowler.  handleRedo has no button, and the *)
(* "Select New Bowler" selector always lies under the "Select Opening      *)
(* Bowler" one, which shows on the same flag.                              *)

\* longest ball log explored with the snapshot scorer
MaxSnapBalls == 7

\* Match objects carry no wicketsPerInnings: nothing in the sources sets it
wicketsPerInnings(m) == Undefined

\* CricketEngine.isInningsComplete as the snapshot scorer imports it
isInningsCompleteByLog(m, tm, arr) ==
    LET battingTeam == tm[m.battingTeam]
        wicketsLost == Len(SelectSeq(arr[m.balls], LAMBDA b : b.isWicket))
    IN  \/ battingTeam.overs >= m.totalOvers
        \/ wicketsPerInnings(m) # Undefined /\ wicketsLost >= wicketsPerInnings(m)
        \/ /\ m.isSecondInnings
           /\ m.firstInningsScore # Undefined
           /\ battingTeam.score > m.firstInningsScore

SnapIdleUi == [showBatsmanSelector |-> FALSE, showBowlerSelector |-> FALSE,
               showNewBatsmanSelector |-> FALSE, showInningsBreak |-> FALSE,
               showInningsSetup |-> FALSE, showVictoryAnimation |-> FALSE]

\* isFirstInningsComplete()
isFirstInningsComplete(m, tm) ==
    ~m.isSecondInnings
    /\ (tm[m.battingTeam].overs >= m.totalOvers \/ tm[m.battingTeam].wickets >= AllOut)

\* the panel is rendered
PanelMounted(m) ==
    m.currentStriker # NoPlayer /\ m.currentNonStriker # NoPlayer /\ m.currentBowler # NoPlayer

\* the panel's local state after a render: lost when it is not rendered
SnapPanelSync(pn, m) ==
    IF PanelMounted(m) THEN [pn EXCEPT !.bowler = m.currentBowler] ELSE NoPanel

\* the modal that takes the clicks: the last one in document order
SnapTopModal ==
    IF reported.stage = "delivered" THEN "unmounted"
    ELSE IF ui.showBowlerSelector THEN "openingBowler"
    ELSE IF ui.showBatsmanSelector THEN "batsman"
    ELSE IF ui.showVictoryAnimation THEN "victory"
    ELSE IF ui.showInningsSetup THEN "inningsSetup"
    ELSE IF ui.showNewBatsmanSelector THEN "newBatsman"
    ELSE IF ui.showInningsBreak THEN "inningsBreak"
    ELSE "none"

\* the batting team object after the inline scoring of a delivery
InlineTeamAfterBall(t, ball) ==
    LET t1 == [t EXCEPT !.score = @ + ball.runs]
        t2 == IF ball.isWide THEN [t1 EXCEPT !.extras.wides = @ + 1]
              ELSE IF ball.isNoBall THEN [t1 EXCEPT !.extras.noBalls = @ + 1]
              ELSE IF ball.isBye THEN [t1 EXCEPT !.extras.byes = @ + ball.runs]
              ELSE IF ball.isLegBye THEN [t1 EXCEPT !.extras.legByes = @ + ball.runs]
              ELSE t1
        t3 == IF ball.isWicket THEN [t2 EXCEPT !.wickets = @ + 1] ELSE t2
    IN  IF ~ball.isWide /\ ~ball.isNoBall
        THEN IF t3.balls + 1 >= BallsPerOver
             THEN [t3 EXCEPT !.overs = @ + 1, !.balls = 0]
             ELSE [t3 EXCEPT !.balls = @ + 1]
        ELSE t3

SwapEnds(m) ==
    [m EXCEPT !.currentStriker = m.currentNonStriker, !.currentNonStriker = m.currentStriker]

\* five dot balls of the first over, scored inline in an earlier session
RECURSIVE InlineDots(_, _)
InlineDots(w, n) ==
    IF n = 0 THEN w
    ELSE LET b == Ball(Len(w.arrays[w.match.balls]) + 1,
                       w.teams[w.match.battingTeam].overs + 1,
                       w.match.currentBowler, "a1", "a2", 0, "none", "none", NoPlayer)
         IN  InlineDots([w EXCEPT !.arrays[w.match.balls] = Append(@, b),
                                  !.teams[w.match.battingTeam] = InlineTeamAfterBall(@, b)],
                        n - 1)

SnapStartWorlds ==
    {FreshWorld(total) : total \in TotalOversChoices}
    \cup {InlineDots(FreshWorld(total), BallsPerOver - 1) : total \in TotalOversChoices}

SnapInit ==
    /\ \E w \in SnapStartWorlds :
          /\ match = w.match
          /\ teams = w.teams
          /\ ballArrays = w.arrays
          /\ panel = SnapPanelSync(NoPanel, w.match)
    /\ lastCall = NoCall
    /\ actionHistory = <<>>
    /\ ui = SnapIdleUi
    /\ reported = NotReported
    /\ query = NoQuery
    /\ undoCount = 0
    /\ cloud = NoCloud

SnapBall(runs, extra, wt, withOver) ==
    Ball(Len(Log) + 1, IF withOver THEN BattingTeam.overs + 1 ELSE 0,
         panel.bowler, panel.striker, panel.nonStriker, runs, extra, wt, NoPlayer)

\* handleMatchComplete: a copy of the `match` of the render, marked completed
SnapCompleted(m) == [m EXCEPT !.isCompleted = TRUE]

\* handleScoreUpdate(ball): the snapshot, the inline scoring on the shared
\* team and ball array, then the transitions; where handleMatchComplete runs,
\* setMatch(updatedMatch) follows it
SnapScoreUpdate(ball) ==
    LET legal == ~ball.isWide /\ ~ball.isNoBall
        team == InlineTeamAfterBall(BattingTeam, ball)
        teams1 == [teams EXCEPT ![match.battingTeam] = team]
        arrays1 == [ballArrays EXCEPT ![match.balls] = Append(@, ball)]
        m1 == IF ball.runs % 2 = 1 /\ ~ball.isWicket THEN SwapEnds(match) ELSE match
        overDone == legal /\ BattingTeam.balls + 1 >= BallsPerOver
        updatedMatch == IF overDone THEN SwapEnds(m1) ELSE m1
        oversUp == overDone /\ team.overs >= match.totalOvers
        inningsComplete == oversUp \/ isInningsCompleteByLog(updatedMatch, teams1, arrays1)
        \* isFirstInningsComplete() reads the team object already updated
        firstInningsComplete == isFirstInningsComplete(match, teams1)
        ui1 == IF ball.isWicket /\ team.wickets < AllOut
               THEN [ui EXCEPT !.showNewBatsmanSelector = TRUE] ELSE ui
        ui2 == IF overDone /\ ~oversUp THEN [ui1 EXCEPT !.showBowlerSelector = TRUE] ELSE ui1
        ui3 == IF inningsComplete
               THEN IF ~updatedMatch.isSecondInnings
                    THEN IF firstInningsComplete
                         THEN [ui2 EXCEPT !.showInningsBreak = TRUE] ELSE ui2
                    ELSE [ui2 EXCEPT !.showVictoryAnimation = TRUE]
               ELSE ui2
    IN  /\ Len(Log) < MaxSnapBalls
        /\ Eventful(ball) => CountEventful(Log) < MaxLiveEventful
        /\ actionHistory' = Append(actionHistory, match)
        /\ match' = updatedMatch
        /\ teams' = teams1
        /\ ballArrays' = arrays1
        /\ ui' = ui3
        /\ panel' = SnapPanelSync(panel, updatedMatch)
        /\ reported' = IF inningsComplete /\ updatedMatch.isSecondInnings
                       THEN [stage |-> "pending",
                             match |-> Deep(SnapCompleted(match), teams1, arrays1),
                             stored |-> Deep(updatedMatch, teams1, arrays1)]
                       ELSE reported
        /\ UNCHANGED <<lastCall, query, undoCount, cloud>>

PanelReady ==
    /\ SnapTopModal = "none"
    /\ PanelMounted(match)
    /\ panel.striker # NoPlayer /\ panel.nonStriker # NoPlayer /\ panel.bowler # NoPlayer

\* ScoringPanel.handleRun under the snapshot scorer
SnapRun ==
    /\ PanelReady
    /\ \E runs \in LiveRunChoices : SnapScoreUpdate(SnapBall(runs, "none", "none", TRUE))

\* ScoringPanel.handleExtraType under the snapshot scorer
SnapExtraType ==
    /\ SnapTopModal = "none" /\ PanelMounted(match)
    /\ panel.striker # NoPlayer /\ panel.bowler # NoPlayer
    /\ \E runs \in LiveExtraRunChoices, type \in LiveExtraTypes :
          SnapScoreUpdate(SnapBall(runs, type, "none", FALSE))

\* ScoringPanel.handleWicket under the snapshot scorer
SnapWicket ==
    /\ PanelReady
    /\ SnapScoreUpdate(SnapBall(0, "none", "bowled", TRUE))

\* ScoringPanel.handlePlayerSelect for striker / nonStriker, in that order
SnapPanelSelect ==
    /\ SnapTopModal = "none" /\ PanelMounted(match)
    /\ \/ /\ panel.striker = NoPlayer
          /\ panel' = [panel EXCEPT !.striker = BattingTeam.players[1]]
       \/ /\ panel.striker # NoPlayer /\ panel.nonStriker = NoPlayer
          /\ panel' = [panel EXCEPT !.nonStriker = BattingTeam.players[2]]
    /\ UNCHANGED <<match, teams, ballArrays, lastCall, actionHistory, ui, reported, query,
                   undoCount, cloud>>

\* handleUndo: the last snapshot becomes the match; the team objects and the
\* ball array it points to stay as the deliveries left them
SnapUndo ==
    /\ SnapTopModal = "none" /\ PanelMounted(match)
    /\ Len(actionHistory) > 0
    /\ undoCount < MaxUndos
    /\ match' = actionHistory[Len(actionHistory)]
    /\ actionHistory' = SubSeq(actionHistory, 1, Len(actionHistory) - 1)
    /\ panel' = SnapPanelSync(panel, match')
    /\ undoCount' = undoCount + 1
    /\ UNCHANGED cloud
    /\ UNCHANGED <<teams, ballArrays, lastCall, ui, reported, query>>

\* handleNewBatsman(newBatsman); the third batsman is explored
SnapNewBatsman ==
    /\ SnapTopModal = "newBatsman"
    /\ match' = [match EXCEPT !.currentStriker = BattingTeam.players[3]]
    /\ ui' = [ui EXCEPT !.showNewBatsmanSelector = FALSE]
    /\ panel' = SnapPanelSync(panel, match')
    /\ UNCHANGED <<teams, ballArrays, lastCall, actionHistory, reported, query, undoCount, cloud>>

\* handleInningsBreakContinue
SnapInningsBreakContinue ==
    /\ SnapTopModal = "inningsBreak"
    /\ match' = inningsBreakContinue(match, teams).match
    /\ teams' = inningsBreakContinue(match, teams).teams
    /\ ui' = [ui EXCEPT !.showInningsBreak = FALSE, !.showInningsSetup = TRUE]
    /\ panel' = SnapPanelSync(panel, match')
    /\ UNCHANGED <<ballArrays, lastCall, actionHistory, reported, query, undoCount, cloud>>

\* handleInningsSetup: on to the opening batsmen
SnapInningsSetup ==
    /\ SnapTopModal = "inningsSetup"
    /\ ui' = [ui EXCEPT !.showInningsSetup = FALSE, !.showBatsmanSelector = TRUE]
    /\ UNCHANGED <<match, teams, ballArrays, lastCall, actionHistory, panel, reported, query,
                   undoCount, cloud>>

\* handleBatsmanSelect(player): the striker, then the non-striker and on to
\* the bowler; the openers are explored in batting order
SnapBatsmanSelect ==
    /\ SnapTopModal = "batsman"
    /\ IF match.currentStriker = NoPlayer
       THEN /\ match' = [match EXCEPT !.currentStriker = BattingTeam.players[1]]
            /\ ui' = ui
       ELSE /\ match.currentNonStriker = NoPlayer
            /\ match' = [match EXCEPT !.currentNonStriker = BattingTeam.players[2]]
            /\ ui' = [ui EXCEPT !.showBatsmanSelector = FALSE, !.showBowlerSelector = TRUE]
    /\ panel' = SnapPanelSync(panel, match')
    /\ UNCHANGED <<teams, ballArrays, lastCall, actionHistory, reported, query, undoCount, cloud>>

\* handleBowlerSelect(player), from the selector on top; it lists the whole
\* bowling side, of which the first two are explored
SnapBowlerSelect ==
    /\ SnapTopModal = "openingBowler"
    /\ \E p \in Openers(teams[match.bowlingTeam]) :
          match' = [match EXCEPT !.currentBowler = p]
    /\ ui' = [ui EXCEPT !.showBowlerSelector = FALSE]
    /\ panel' = SnapPanelSync(panel, match')
    /\ UNCHANGED <<teams, ballArrays, lastCall, actionHistory, reported, query, undoCount, cloud>>

\* onClose of the new-batsman selector
SnapCloseNewBatsmanSelector ==
    /\ SnapTopModal = "newBatsman"
    /\ ui' = [ui EXCEPT !.showNewBatsmanSelector = FALSE]
    /\ UNCHANGED <<match, teams, ballArrays, lastCall, actionHistory, panel, reported, query,
                   undoCount, cloud>>

\* onClose of the opening-batsmen selector
SnapCloseBatsmanSelector ==
    /\ SnapTopModal = "batsman"
    /\ ui' = [ui EXCEPT !.showBatsmanSelector = FALSE]
    /\ UNCHANGED <<match, teams, ballArrays, lastCall, actionHistory, panel, reported, query,
                   undoCount, cloud>>

\* onClose of the bowler selectors
SnapCloseBowlerSelector ==
    /\ SnapTopModal = "openingBowler"
    /\ ui' = [ui EXCEPT !.showBowlerSelector = FALSE]
    /\ UNCHANGED <<match, teams, ballArrays, lastCall, actionHistory, panel, reported, query,
                   undoCount, cloud>>

\* the "Select Opening Batsmen" / "Select Opening Bowler" buttons of the
\* setup prompt
SnapOpenSelector ==
    /\ SnapTopModal = "none"
    /\ \/ /\ match.currentStriker = NoPlayer
          /\ ui' = [ui EXCEPT !.showBatsmanSelector = TRUE]
       \/ /\ match.currentStriker # NoPlayer /\ match.currentNonStriker # NoPlayer
          /\ match.currentBowler = NoPlayer
          /\ ui' = [ui EXCEPT !.showBowlerSelector = TRUE]
    /\ UNCHANGED <<match, teams, ballArrays, lastCall, actionHistory, panel, reported, query,
                   undoCount, cloud>>

\* the floating "Start 2nd Innings" button: handleInningsTransition
SnapStartSecondInnings ==
    /\ SnapTopModal = "none"
    /\ isFirstInningsComplete(match, teams)
    /\ ui' = [ui EXCEPT !.showInningsBreak = TRUE]
    /\ UNCHANGED <<match, teams, ballArrays, lastCall, actionHistory, panel, reported, query,
                   undoCount, cloud>>

\* the 3 s timer of handleMatchComplete: onMatchComplete(updatedMatch)
SnapVictoryTimeout ==
    /\ reported.stage = "pending"
    /\ reported' = [reported EXCEPT !.stage = "delivered"]
    /\ ui' = [ui EXCEPT !.showVictoryAnimation = FALSE]
    /\ UNCHANGED <<match, teams, ballArrays, lastCall, actionHistory, panel, query,
                   undoCount, cloud>>

SnapNext ==
    \/ SnapRun
    \/ SnapExtraType
    \/ SnapWicket
    \/ SnapPanelSelect
    \/ SnapUndo
    \/ SnapNewBatsman
    \/ SnapInningsBreakContinue
    \/ SnapInningsSetup
    \/ SnapBatsmanSelect
    \/ SnapBowlerSelect
    \/ SnapCloseNewBatsmanSelector
    \/ SnapCloseBatsmanSelector
    \/ SnapCloseBowlerSelector
    \/ SnapOpenSelector
    \/ SnapStartSecondInnings
    \/ SnapVictoryTimeout

SpecSnap == SnapInit /\ [][SnapNext]_vars

\* C6: isSecondInnings never goes from true back to false, and the match is
\* never marked completed while isSecondInnings is false
C6_LinearInnings ==
    /\ [](match.isCompleted => match.isSecondInnings)
    /\ [][match.isSecondInnings => match'.isSecondInnings]_vars

----------------------------------------------------------------------------
(* SpecBowlers: canBowlerBowlNextOver and getAvailableBowlers on matches   *)
(* that earlier sessions have scored: complete overs of dot balls, each    *)
(* over by one bowler, in the first innings or in the reply.  The ball log *)
(* of the reply still holds the balls of the first innings.                *)

\* most overs bowled in one innings of these matches
MaxPlanOvers == 4

\* overs of the first innings of the matches saved in the reply
ReplyFirstInningsOvers == 2

\* one bowler per over, for 0..n overs
OverPlans(roster, n) ==
    UNION {[1..k -> Players(roster)] : k \in 0..n}

\* the bowler takes the ball and bowls six dot balls
RECURSIVE InningsScript(_, _, _)
InningsScript(plan, striker, nonStriker) ==
    IF plan = <<>> THEN <<>>
    ELSE <<BowlerStep(Head(plan))>>
         \o [i \in 1..BallsPerOver |-> BallStep(striker, nonStriker, 0)]
         \o InningsScript(Tail(plan), striker, nonStriker)

ReplyScript(first, reply) ==
    InningsScript(first, "a1", "a2")
    \o <<[op |-> "continue"],
         [op |-> "setup", striker |-> "b1", nonStriker |-> "b2", player |-> "a1"]>>
    \o InningsScript(reply, "b1", "b2")

BowlerWorlds ==
    {Session(FreshWorld(MaxPlanOvers + 1), InningsScript(plan, "a1", "a2")) :
        plan \in OverPlans(Team2Players, MaxPlanOvers)}
    \cup {Session(FreshWorld(ReplyFirstInningsOvers), ReplyScript(first, reply)) :
            first \in [1..ReplyFirstInningsOvers -> Players(Team2Players)],
            reply \in OverPlans(Team1Players, ReplyFirstInningsOvers - 1)}

BowlersInit ==
    /\ \E w \in BowlerWorlds :
          /\ match = w.match
          /\ teams = w.teams
          /\ ballArrays = w.arrays
    /\ lastCall = NoCall
    /\ actionHistory = <<>>
    /\ panel = NoPanel
    /\ ui = IdleUi
    /\ reported = NotReported
    /\ query = NoQuery
    /\ undoCount = 0
    /\ cloud = NoCloud

AskCanBowlerBowlNextOver ==
    \E p \in Players(teams[match.bowlingTeam].players) :
        /\ query' = [fn |-> "canBowlerBowlNextOver", bowler |-> p,
                     answer |-> canBowlerBowlNextOver(p, match, teams, ballArrays)]
        /\ UNCHANGED <<match, teams, ballArrays, lastCall, actionHistory, panel, ui,
                       reported, undoCount, cloud>>

AskAvailableBowlers ==
    \E n \in 1..(BattingTeam.overs + 1) :
        /\ query' = [fn |-> "getAvailableBowlers", nextOver |-> n,
                     result |-> getAvailableBowlers(match, teams, ballArrays, n)]
        /\ UNCHANGED <<match, teams, ballArrays, lastCall, actionHistory, panel, ui,
                       reported, undoCount, cloud>>

BowlersNext == AskCanBowlerBowlNextOver \/ AskAvailableBowlers

SpecBowlers == BowlersInit /\ [][BowlersNext]_vars

\* the bowlers of the deliveries the ball log numbers as over n
BowlersOfOver(n) ==
    {Log[i].bowler : i \in {j \in 1..Len(Log) : Log[j].overNumber = n}}

\* C11: getAvailableBowlers(match, nextOver) is the bowling team's roster in
\* roster order, less the bowler of over nextOver-1 (nobody when nextOver is
\* 1) and less the two current batsmen
C11_AvailableBowlers ==
    query.fn = "getAvailableBowlers" =>
        LET excluded == IF query.nextOver = 1 THEN {}
                        ELSE BowlersOfOver(query.nextOver - 1)
            eligible(p) == /\ p \notin excluded
                           /\ p # match.currentStriker
                           /\ p # match.currentNonStriker
        IN  query.result = SelectSeq(teams[match.bowlingTeam].players, eligible)

\* C12: canBowlerBowlNextOver(bowler, match) is false whenever any delivery of
\* the preceding over was bowled by that bowler, and true when none was or
\* when there is no preceding over
C12_NoConsecutiveOvers ==
    query.fn = "canBowlerBowlNextOver" =>
        query.answer = (query.bowler \notin BowlersOfOver(BattingTeam.overs))

----------------------------------------------------------------------------
(* SpecStats: CricketEngine.updatePlayerStats applied to a player's stats  *)
(* for two completed matches, in either order.  ballArrays holds the ball  *)
(* arrays of the two matches; query holds the player, the stats the player *)
(* started with, the stats so far and the matches already counted.         *)

FiftyRuns == 50
HundredRuns == 100

\* the stats of a player just created
NewStats ==
    [matchesPlayed |-> 0, runsScored |-> 0, ballsFaced |-> 0, fours |-> 0,
     sixes |-> 0, dotBalls |-> 0, timesOut |-> 0, ducks |-> 0, fifties |-> 0,
     hundreds |-> 0, highestScore |-> 0, wicketsTaken |-> 0, ballsBowled |-> 0,
     runsConceded |-> 0, maidenOvers |-> 0, catches |-> 0, runOuts |-> 0,
     motmAwards |-> 0, bestBowlingFigures |-> [wickets |-> 0, runs |-> 0]]

\* compareBowlingFigures on the wickets alone
compareBowlingFigures_WicketsOnly(current, best) ==
    current.wickets >= best.wickets

\* compareBowlingFigures(current, best) on "wickets/runs"
compareBowlingFigures(current, best) ==
    \/ current.wickets > best.wickets
    \/ current.wickets = best.wickets /\ current.runs < best.runs

\* what updatePlayerStats reads off the ball log of one match for a player
MatchFigures(player, m, arr) ==
    LET log == arr[m.balls]
        count(s, Test(_)) == Len(SelectSeq(s, Test))
        \* batting
        battingBalls == SelectSeq(log, LAMBDA b : b.striker = player)
        offBat(b) == ~b.isWide /\ ~b.isNoBall /\ ~b.isBye /\ ~b.isLegBye
        \* bowling
        bowlingBalls == SelectSeq(log, LAMBDA b : b.bowler = player)
        takes(b) == b.isWicket /\ b.wicketType # "run_out"
        overKeys == {bowlingBalls[i].overNumber : i \in 1..Len(bowlingBalls)}
        ofOver(k) == SelectSeq(bowlingBalls, LAMBDA b : b.overNumber = k)
        \* fielding
        fielded(kind) == count(log, LAMBDA b : b.isWicket /\ b.wicketType = kind
                                                /\ b.fielder = player)
    IN  [runsScored |-> SumRuns(SelectSeq(battingBalls, offBat)),
         ballsFaced |-> count(battingBalls, Legal),
         dotBalls |-> count(battingBalls, LAMBDA b : Legal(b) /\ b.runs = 0),
         fours |-> count(battingBalls, LAMBDA b : b.runs = 4),
         sixes |-> count(battingBalls, LAMBDA b : b.runs = 6),
         gotOut |-> \E i \in 1..Len(battingBalls) : battingBalls[i].isWicket,
         wicketsTaken |-> count(bowlingBalls, takes),
         runsConceded |-> SumRuns(bowlingBalls),
         ballsBowled |-> count(bowlingBalls, Legal),
         maidenOvers |-> Cardinality({k \in overKeys :
                             /\ count(ofOver(k), Legal) = BallsPerOver
                             /\ SumRuns(ofOver(k)) = 0}),
         catches |-> fielded("caught"),
         runOuts |-> fielded("run_out"),
         motm |-> m.manOfTheMatch = player]

\* updatePlayerStats with the duck judged on the career runs
updatePlayerStats_DuckOnCareerRuns(stats, player, m, arr) ==
    LET f == MatchFigures(player, m, arr)
        currentFigures == [wickets |-> f.wicketsTaken, runs |-> f.runsConceded]
    IN  [stats EXCEPT
           !.matchesPlayed = @ + 1,
           !.runsScored = @ + f.runsScored,
           !.ballsFaced = @ + f.ballsFaced,
           !.fours = @ + f.fours,
           !.sixes = @ + f.sixes,
           !.dotBalls = @ + f.dotBalls,
           !.timesOut = IF f.gotOut THEN @ + 1 ELSE @,
           !.ducks = IF f.gotOut /\ stats.runsScored + f.runsScored = 0 THEN @ + 1 ELSE @,
           !.fifties = IF f.runsScored >= FiftyRuns /\ f.runsScored < HundredRuns
                       THEN @ + 1 ELSE @,
           !.hundreds = IF f.runsScored >= HundredRuns THEN @ + 1 ELSE @,
           !.highestScore = IF f.runsScored > @ THEN f.runsScored ELSE @,
           !.wicketsTaken = @ + f.wicketsTaken,
           !.ballsBowled = @ + f.ballsBowled,
           !.runsConceded = @ + f.runsConceded,
           !.maidenOvers = @ + f.maidenOvers,
           !.bestBowlingFigures =
               IF f.wicketsTaken > 0
                  /\ (@ = [wickets |-> 0, runs |-> 0] \/ compareBowlingFigures(currentFigures, @))
               THEN currentFigures ELSE @,
           !.catches = @ + f.catches,
           !.runOuts = @ + f.runOuts,
           !.motmAwards = IF f.motm THEN @ + 1 ELSE @]

\* updatePlayerStats(player, match), player.stats passed as stats
updatePlayerStats(stats, player, m, arr) ==
    LET f == MatchFigures(player, m, arr)
        currentFigures == [wickets |-> f.wicketsTaken, runs |-> f.runsConceded]
    IN  [stats EXCEPT
           !.matchesPlayed = @ + 1,
           !.runsScored = @ + f.runsScored,
           !.ballsFaced = @ + f.ballsFaced,
           !.fours = @ + f.fours,
           !.sixes = @ + f.sixes,
           !.dotBalls = @ + f.dotBalls,
           !.timesOut = IF f.gotOut THEN @ + 1 ELSE @,
           !.ducks = IF f.gotOut /\ f.runsScored = 0 THEN @ + 1 ELSE @,
           !.fifties = IF f.runsScored >= FiftyRuns /\ f.runsScored < HundredRuns
                       THEN @ + 1 ELSE @,
           !.hundreds = IF f.runsScored >= HundredRuns THEN @ + 1 ELSE @,
           !.highestScore = IF f.runsScored > @ THEN f.runsScored ELSE @,
           !.wicketsTaken = @ + f.wicketsTaken,
           !.ballsBowled = @ + f.ballsBowled,
           !.runsConceded = @ + f.runsConceded,
           !.maidenOvers = @ + f.maidenOvers,
           !.bestBowlingFigures =
               IF f.wicketsTaken > 0
                  /\ (@ = [wickets |-> 0, runs |-> 0] \/ compareBowlingFigures(currentFigures, @))
               THEN currentFigures ELSE @,
           !.catches = @ + f.catches,
           !.runOuts = @ + f.runOuts,
           !.motmAwards = IF f.motm THEN @ + 1 ELSE @]

\* the matches counted: a1 faces n balls from b1 for a four and then sixes
\* and may then be bowled; a1 bowls no over, a maiden, or an over with a wide
\* and a caught-and-bowled, or with a run-out for a single
BattedBalls == {0, 1, 9, 17}
BowledOvers == {"none", "maiden", "caught", "run_out"}

StatLog(n, out, over) ==
    LET batting == [i \in 1..n |->
                      Ball(i, ((i - 1) \div BallsPerOver) + 1, "b1", "a1", "a2",
                           IF i = 1 THEN 4 ELSE 6, "none", "none", NoPlayer)]
        wicket == IF out
                  THEN <<Ball(n + 1, (n \div BallsPerOver) + 1, "b1", "a1", "a2",
                              0, "none", "bowled", NoPlayer)>>
                  ELSE <<>>
        dot(i) == Ball(n + 1 + i, 1, "a1", "b1", "b2", 0, "none", "none", NoPlayer)
        dots == [i \in 1..(BallsPerOver - 1) |-> dot(i)]
        last == n + 1 + BallsPerOver
        bowling ==
            CASE over = "none" -> <<>>
              [] over = "maiden" -> dots \o <<dot(BallsPerOver)>>
              [] over = "caught" ->
                   <<Ball(last + 1, 1, "a1", "b1", "b2", 1, "wide", "none", NoPlayer)>>
                   \o dots
                   \o <<Ball(last, 1, "a1", "b1", "b2", 0, "none", "caught", "a1")>>
              [] over = "run_out" ->
                   dots \o <<Ball(last, 1, "a1", "b1", "b2", 1, "none", "run_out", "a1")>>
    IN  batting \o wicket \o bowling

StatLogs == {StatLog(n, out, over) : n \in BattedBalls, out \in BOOLEAN, over \in BowledOvers}

\* a player with matches behind them
CareerStats ==
    [NewStats EXCEPT !.matchesPlayed = 3, !.runsScored = 60, !.ballsFaced = 40,
                     !.timesOut = 2, !.highestScore = 52, !.fifties = 1,
                     !.wicketsTaken = 2, !.ballsBowled = 12, !.runsConceded = 9,
                     !.bestBowlingFigures = [wickets |-> 1, runs |-> 1]]

StatPlayers == {"a1", "b1"}

\* the completed match k of the two
CompletedMatch(k) ==
    [NewMatch(3) EXCEPT !.balls = k, !.isCompleted = TRUE, !.isSecondInnings = TRUE,
                        !.manOfTheMatch = query.motm[k]]

StatsInit ==
    /\ ballArrays \in [{1, 2} -> StatLogs]
    /\ ballArrays[1] # ballArrays[2]
    /\ \E player \in StatPlayers, start \in {NewStats, CareerStats},
          motm \in [{1, 2} -> {"a1", "b1"}] :
         query = [fn |-> "updatePlayerStats", player |-> player, start |-> start,
                  stats |-> start, counted |-> <<>>, motm |-> motm]
    /\ match = NewMatch(3)
    /\ teams = FreshTeams
    /\ lastCall = NoCall
    /\ actionHistory = <<>>
    /\ panel = NoPanel
    /\ ui = IdleUi
    /\ reported = NotReported
    /\ undoCount = 0
    /\ cloud = NoCloud

\* the stats effect of the scorer for one completed match: the player's stats
\* become updatePlayerStats(player, match)
UpdateStats(k) ==
    /\ \A i \in 1..Len(query.counted) : query.counted[i] # k
    /\ match' = CompletedMatch(k)
    /\ query' = [query EXCEPT
                   !.stats = updatePlayerStats(@, query.player, match', ballArrays),
                   !.counted = Append(@, k)]
    /\ UNCHANGED <<teams, ballArrays, lastCall, actionHistory, panel, ui, reported, undoCount, cloud>>

StatsNext == \E k \in {1, 2} : UpdateStats(k)

SpecStats == StatsInit /\ [][StatsNext]_vars

\* the counters the stats add up
AdditiveCounters ==
    {"matchesPlayed", "runsScored", "ballsFaced", "fours", "sixes", "dotBalls",
     "timesOut", "ducks", "fifties", "hundreds", "wicketsTaken", "ballsBowled",
     "runsConceded", "maidenOvers", "catches", "runOuts", "motmAwards"}

\* what match k alone adds to the starting stats
DeltaAlone(k, c) ==
    updatePlayerStats(query.start, query.player, CompletedMatch(k), ballArrays)[c]
    - query.start[c]

\* C17: after updatePlayerStats for two different completed matches, in
\* either order, every additive counter is its starting value plus what each
\* match adds on its own
C17_StatsAdditive ==
    (query.fn = "updatePlayerStats" /\ Len(query.counted) = 2) =>
        \A c \in AdditiveCounters :
            query.stats[c] = query.start[c] + DeltaAlone(1, c) + DeltaAlone(2, c)

\* a duck with a catch and a maiden in the second match counted, after a
\* century in the first, on top of a career
C17_Witness ==
    /\ query.fn = "updatePlayerStats" /\ query.counted = <<2, 1>>
    /\ query.player = "a1" /\ query.start = CareerStats
    /\ query.stats.ducks = 1 /\ query.stats.hundreds = 1
    /\ query.stats.maidenOvers = 1 /\ query.stats.catches = 1
    /\ query.stats.motmAwards = 2
    /\ query.stats.runsScored = 160

----------------------------------------------------------------------------
(* SpecMotm: calculateManOfTheMatch on matches with short ball logs, asked *)
(* of the match and of a second match with the same ball log, rosters and  *)
(* completion flag whose other fields differ.                              *)

\* longest ball log of these matches
MaxMotmBalls == 3

\* the deliveries of these logs, by what they do to the performance scores
MotmBalls ==
    {Ball(0, 1, "b1", "a1", "a2", 0, "none", "none", NoPlayer),
     Ball(0, 1, "b2", "a1", "a2", 0, "none", "none", NoPlayer),
     Ball(0, 1, "b1", "a1", "a2", 4, "none", "none", NoPlayer),
     Ball(0, 1, "b1", "a2", "a1", 2, "bye", "none", NoPlayer),
     Ball(0, 1, "b2", "a1", "a2", 0, "none", "bowled", NoPlayer),
     Ball(0, 1, "b1", "a2", "a1", 0, "none", "caught", "b3"),
     Ball(0, 1, "b1", "a1", "a2", 1, "wide", "none", NoPlayer),
     Ball(0, 1, "a1", "b1", "b2", 0, "none", "none", NoPlayer)}

MotmLogs ==
    UNION {{[i \in 1..n |-> [s[i] EXCEPT !.id = i]] : s \in [1..n -> MotmBalls]} :
              n \in 0..MaxMotmBalls}

\* matches that agree with (m, tm) on rosters, ball log and completion flag
Twins(m, tm) ==
    {[match |-> [m EXCEPT !.currentStriker = s, !.isSecondInnings = second,
                          !.firstInningsScore = IF second THEN 0 ELSE Undefined],
      teams |-> [r \in TeamRefs |-> [tm[r] EXCEPT !.score = IF second THEN 1 ELSE 0]]] :
        s \in {"a1", "b1"}, second \in BOOLEAN}

MotmInit ==
    /\ \E done \in BOOLEAN : match = [NewMatch(1) EXCEPT !.isCompleted = done]
    /\ teams = FreshTeams
    /\ ballArrays \in [{1} -> MotmLogs]
    /\ lastCall = NoCall
    /\ actionHistory = <<>>
    /\ panel = NoPanel
    /\ ui = IdleUi
    /\ reported = NotReported
    /\ query = NoQuery
    /\ undoCount = 0
    /\ cloud = NoCloud

AskManOfTheMatch ==
    \E twin \in Twins(match, teams) :
        /\ query' = [fn |-> "calculateManOfTheMatch",
                     player |-> calculateManOfTheMatch(match, teams, ballArrays),
                     twin |-> twin,
                     twinPlayer |-> calculateManOfTheMatch(twin.match, twin.teams, ballArrays)]
        /\ UNCHANGED <<match, teams, ballArrays, lastCall, actionHistory, panel, ui,
                       reported, undoCount, cloud>>

MotmNext == AskManOfTheMatch

SpecMotm == MotmInit /\ [][MotmNext]_vars

\* the players of both rosters, team1 first, and the total of each
AllPlayers == teams["team1"].players \o teams["team2"].players
TotalOf(p) == calculatePlayerPerformance(p, Log).totalScore

\* the first player in roster order whose total is the highest of all
FirstOfBest ==
    LET i == CHOOSE k \in 1..Len(AllPlayers) :
                 /\ \A j \in 1..Len(AllPlayers) : TotalOf(AllPlayers[j]) <= TotalOf(AllPlayers[k])
                 /\ \A j \in 1..(k - 1) : TotalOf(AllPlayers[j]) < TotalOf(AllPlayers[k])
    IN  AllPlayers[i]

AskedOfCompleted == query.fn = "calculateManOfTheMatch" /\ match.isCompleted

----------------------------------------------------------------------------
(* SpecSync: the live scorer with its load and save effects and the cloud  *)
(* document of the match.  getDoc answers with the document as the client  *)
(* sees it: the stored document under the writes not yet settled.          *)

\* changes of connectivity followed in one session
MaxOnlineChanges == 2

\* the match in memory, as saveMatch(match) would write it
World == [match |-> match, teams |-> teams, arrays |-> ballArrays]

\* the save effect has not yet run for the match of this render
EffectPending == cloud.seen # World

\* what the save effect does with `w`, the match of the render
saveMatch(c, w) ==
    IF ~c.isOnline THEN [c EXCEPT !.seen = w]
    ELSE [c EXCEPT !.seen = w, !.writes = Append(c.writes, w)]

\* the load effect: getMatch asked when online
loadMatch(c) == IF c.isOnline THEN [c EXCEPT !.reads = c.reads + 1] ELSE c

\* mount: the match handed over, a stored document or none, and both effects
SyncInit ==
    /\ match = NewMatch(2)
    /\ teams = FreshTeams
    /\ ballArrays = FreshWorld(2).arrays
    /\ panel = [striker |-> NoPlayer, nonStriker |-> NoPlayer, bowler |-> match.currentBowler]
    /\ lastCall = NoCall
    /\ actionHistory = <<>>
    /\ ui = IdleUi
    /\ reported = NotReported
    /\ query = NoQuery
    /\ undoCount = 0
    /\ \E online \in BOOLEAN, stored \in {<<>>, <<FreshWorld(2)>>} :
          cloud = saveMatch(loadMatch([isOnline |-> online, stored |-> stored,
                                       writes |-> <<>>, reads |-> 0,
                                       seen |-> FreshWorld(2), changes |-> 0]),
                            FreshWorld(2))

\* the save effect after a render with a new match
SaveEffect ==
    /\ EffectPending
    /\ cloud' = saveMatch(cloud, World)
    /\ UNCHANGED <<match, teams, ballArrays, lastCall, actionHistory, panel, ui, reported,
                   query, undoCount>>

SyncSelect == ~EffectPending /\ PanelSelect

SyncRun == ~EffectPending /\ HandleRun

\* window 'offline': setIsOnline(false); both effects run, and neither asks
GoOffline ==
    /\ ~EffectPending
    /\ cloud.isOnline /\ cloud.changes < MaxOnlineChanges
    /\ cloud' = saveMatch(loadMatch([cloud EXCEPT !.isOnline = FALSE,
                                                  !.changes = cloud.changes + 1]), World)
    /\ UNCHANGED <<match, teams, ballArrays, lastCall, actionHistory, panel, ui, reported,
                   query, undoCount>>

\* window 'online': setIsOnline(true); the load effect asks, the save effect writes
GoOnline ==
    /\ ~EffectPending
    /\ ~cloud.isOnline /\ cloud.changes < MaxOnlineChanges
    /\ cloud' = saveMatch(loadMatch([cloud EXCEPT !.isOnline = TRUE,
                                                  !.changes = cloud.changes + 1]), World)
    /\ UNCHANGED <<match, teams, ballArrays, lastCall, actionHistory, panel, ui, reported,
                   query, undoCount>>

\* setDoc settles: the write reaches the stored document
SaveStored ==
    /\ cloud.isOnline /\ cloud.writes # <<>>
    /\ cloud' = [cloud EXCEPT !.stored = <<Head(cloud.writes)>>, !.writes = Tail(cloud.writes)]
    /\ UNCHANGED <<match, teams, ballArrays, lastCall, actionHistory, panel, ui, reported,
                   query, undoCount>>

\* setDoc fails: saveMatch swallows the error and the write is dropped
SaveFailed ==
    /\ cloud.isOnline /\ cloud.writes # <<>>
    /\ cloud' = [cloud EXCEPT !.writes = Tail(cloud.writes)]
    /\ UNCHANGED <<match, teams, ballArrays, lastCall, actionHistory, panel, ui, reported,
                   query, undoCount>>

\* getMatch resolves: if (savedMatch) setMatch(savedMatch), then the save
\* effect of that render
LoadResolved ==
    LET savedMatch == IF cloud.writes # <<>> THEN <<cloud.writes[Len(cloud.writes)]>>
                      ELSE cloud.stored
        answered == [cloud EXCEPT !.reads = cloud.reads - 1]
    IN  /\ ~EffectPending
        /\ cloud.isOnline /\ cloud.reads > 0
        /\ IF savedMatch = <<>>
           THEN /\ cloud' = answered
                /\ UNCHANGED <<match, teams, ballArrays, panel, lastCall>>
           ELSE /\ match' = savedMatch[1].match
                /\ teams' = savedMatch[1].teams
                /\ ballArrays' = savedMatch[1].arrays
                /\ panel' = PanelSync(panel, savedMatch[1].match)
                /\ lastCall' = NoCall
                /\ cloud' = saveMatch(answered, savedMatch[1])
        /\ UNCHANGED <<actionHistory, ui, reported, query, undoCount>>

SyncNext ==
    \/ SaveEffect
    \/ SyncSelect
    \/ SyncRun
    \/ GoOffline
    \/ GoOnline
    \/ SaveStored
    \/ SaveFailed
    \/ LoadResolved

SpecSync == SyncInit /\ [][SyncNext]_vars

\* `s` is the beginning of `u`
StartsWith(u, s) == Len(s) <= Len(u) /\ \A i \in 1..Len(s) : u[i] = s[i]

\* C20: no load or save step takes a recorded delivery out of the match in
\* memory: the ball log before the step begins the ball log after it
C20_InMemoryAuthoritative ==
    [][cloud' # cloud => StartsWith(ballArrays'[match'.balls], Log)]_vars

----------------------------------------------------------------------------
(* SpecFold: updatePlayerStats and calculatePlayerPerformance folded over  *)
(* the ball log of one completed match, for one player.                    *)

\* longest ball log folded
MaxFoldBalls == 3

\* the deliveries of these logs: a1 batting to b1 (a four, a single, a dot,
\* four byes, six off a no-ball, bowled, run out off a no-ball) and a1
\* bowling to b1 (a wicket, a single)
FoldBalls ==
    {Ball(0, 1, "b1", "a1", "a2", 4, "none", "none", NoPlayer),
     Ball(0, 1, "b1", "a1", "a2", 1, "none", "none", NoPlayer),
     Ball(0, 1, "b1", "a1", "a2", 0, "none", "none", NoPlayer),
     Ball(0, 1, "b1", "a1", "a2", 4, "bye", "none", NoPlayer),
     Ball(0, 1, "b1", "a1", "a2", 6, "noBall", "none", NoPlayer),
     Ball(0, 1, "b1", "a1", "a2", 0, "none", "bowled", NoPlayer),
     Ball(0, 1, "b1", "a1", "a2", 1, "noBall", "run_out", "b2"),
     Ball(0, 1, "a1", "b1", "b2", 0, "none", "bowled", NoPlayer),
     Ball(0, 1, "a1", "b1", "b2", 1, "none", "none", NoPlayer)}

FoldLogs ==
    UNION {{[i \in 1..n |-> [s[i] EXCEPT !.id = i]] : s \in [1..n -> FoldBalls]} :
              n \in 0..MaxFoldBalls}

FoldInit ==
    /\ match = [NewMatch(1) EXCEPT !.isCompleted = TRUE, !.isSecondInnings = TRUE]
    /\ teams = FreshTeams
    /\ ballArrays \in [{1} -> FoldLogs]
    /\ \E player \in StatPlayers, start \in {NewStats, CareerStats} :
          query = [fn |-> "none", player |-> player, start |-> start]
    /\ lastCall = NoCall
    /\ actionHistory = <<>>
    /\ panel = NoPanel
    /\ ui = IdleUi
    /\ reported = NotReported
    /\ undoCount = 0
    /\ cloud = NoCloud

\* the completed match folded for the player: the performance score
\* calculateManOfTheMatch computes and the stats the stats effect stores
FoldMatch ==
    /\ query.fn = "none"
    /\ query' = [fn |-> "fold", player |-> query.player, start |-> query.start,
                 stats |-> updatePlayerStats(query.start, query.player, match, ballArrays),
                 performance |-> calculatePlayerPerformance(query.player, Log)]
    /\ UNCHANGED <<match, teams, ballArrays, lastCall, actionHistory, panel, ui, reported,
                   undoCount, cloud>>

FoldNext == FoldMatch

SpecFold == FoldInit /\ [][FoldNext]_vars

\* the deliveries the player faced as striker, and bowled
FacedBy(p) == SelectSeq(Log, LAMBDA b : b.striker = p)
BowledBy(p) == SelectSeq(Log, LAMBDA b : b.bowler = p)

\* a legal scoring delivery: not a wide, no-ball, bye or leg-bye
OffTheBat(b) == ~b.isWide /\ ~b.isNoBall /\ ~b.isBye /\ ~b.isLegBye

\* what the fold added to counter c
Added(c) == query.stats[c] - query.start[c]

\* C25: as striker the player gains the runs of their deliveries that are
\* not wide, no-ball, bye or leg-bye, the count of their deliveries that are
\* not wide or no-ball, and as fours (sixes) the count of their legal scoring
\* deliveries worth 4 (6)
C25_BattingFold ==
    query.fn = "fold" =>
        LET faced == FacedBy(query.player)
        IN  /\ Added("runsScored") = SumRuns(SelectSeq(faced, OffTheBat))
            /\ Added("ballsFaced") = Len(SelectSeq(faced, Legal))
            /\ Added("fours") = Len(SelectSeq(faced, LAMBDA b : OffTheBat(b) /\ b.runs = 4))
            /\ Added("sixes") = Len(SelectSeq(faced, LAMBDA b : OffTheBat(b) /\ b.runs = 6))

\* the player was dismissed without a run off the bat
DismissedForNought ==
    LET faced == FacedBy(query.player)
    IN  /\ \E i \in 1..Len(faced) : faced[i].isWicket
        /\ SumRuns(SelectSeq(faced, OffTheBat)) = 0

\* the ball log with the player's dismissals struck out
NotOutLog ==
    [i \in 1..Len(Log) |->
        IF Log[i].striker = query.player
        THEN [Log[i] EXCEPT !.isWicket = FALSE, !.wicketType = "none", !.fielder = NoPlayer]
        ELSE Log[i]]

\* the duck penalty, in the tenths the scores are held in
DuckPenalty == 100

FiguresOfMatch ==
    LET bowled == BowledBy(query.player)
    IN  [wickets |-> Len(SelectSeq(bowled, LAMBDA b : b.isWicket /\ b.wicketType # "run_out")),
         runs |-> SumRuns(bowled)]

\* more wickets is better; with equal wickets fewer runs is better
BetterFigures(x, y) ==
    \/ x.wickets > y.wickets
    \/ x.wickets = y.wickets /\ x.runs < y.runs

\* C27: after updatePlayerStats bestBowlingFigures is the better of the
\* stored figures and this match's; a match without a wicket leaves them,
\* and equal or worse figures never replace them
C27_BestBowlingFigures ==
    query.fn = "fold" =>
        LET stored == query.start.bestBowlingFigures
        IN  /\ query.stats.bestBowlingFigures =
                  IF BetterFigures(FiguresOfMatch, stored) THEN FiguresOfMatch ELSE stored
            /\ FiguresOfMatch.wickets = 0 => query.stats.bestBowlingFigures = stored

\* 1 for 0 has replaced the stored 1 for 1
C27_Witness ==
    /\ query.fn = "fold"
    /\ query.start.bestBowlingFigures = [wickets |-> 1, runs |-> 1]
    /\ FiguresOfMatch = [wickets |-> 1, runs |-> 0]
    /\ query.stats.bestBowlingFigures = [wickets |-> 1, runs |-> 0]

----------------------------------------------------------------------------
(* SpecRetry: the snapshot LiveScorer's save effect.  The effect waits     *)
(* 500 ms, saves locally, then saves to the cloud; a cloud save that       *)
(* throws raises retryCount, on which the effect depends.                  *)

\* deliveries recorded while saves are followed, and cloud saves awaited at once
MaxRetryBalls == 3
MaxSavesInFlight == 2

\* if (retryCount < 3)
RetryLimit == 3

\* the effect [match, retryCount] has not yet run for this render
SaveDue == cloud.seen # <<World, cloud.retryCount>>

\* the effect: the timer of the last run is cleared and setTimeout(saveMatch, 500)
\* set, saveMatch closing over the retryCount of this render
debounceSave(c, w) ==
    [c EXCEPT !.timer = <<[retryCount |-> c.retryCount]>>, !.seen = <<w, c.retryCount>>]

\* c without the cloud save i it awaits
Settle(c, i, how) ==
    [c EXCEPT !.flights = SubSeq(@, 1, i - 1) \o SubSeq(@, i + 1, Len(@)), !.settled = how]

RetryInit ==
    /\ match = NewMatch(2)
    /\ teams = FreshTeams
    /\ ballArrays = FreshWorld(2).arrays
    /\ panel = SnapPanelSync(NoPanel, match)
    /\ lastCall = NoCall
    /\ actionHistory = <<>>
    /\ ui = SnapIdleUi
    /\ reported = NotReported
    /\ query = NoQuery
    /\ undoCount = 0
    /\ cloud = debounceSave([retryCount |-> 0, timer |-> <<>>, flights |-> <<>>,
                             seen |-> <<>>, settled |-> "none"], FreshWorld(2))

\* the save effect after a render with a new match
DebounceSave ==
    /\ SaveDue
    /\ cloud' = debounceSave(cloud, World)
    /\ UNCHANGED <<match, teams, ballArrays, lastCall, actionHistory, panel, ui, reported,
                   query, undoCount>>

RetrySelect == ~SaveDue /\ SnapPanelSelect

RetryRun == ~SaveDue /\ Len(actionHistory) < MaxRetryBalls /\ SnapRun

\* the 500 ms timer: saveMatch starts; storageService.saveMatch resolves and
\* the cloud save is awaited, or it throws and the attempt ends
SaveTimer ==
    /\ ~SaveDue
    /\ cloud.timer # <<>> /\ Len(cloud.flights) < MaxSavesInFlight
    /\ \E localSaved \in BOOLEAN :
          cloud' = [cloud EXCEPT !.timer = <<>>,
                                 !.flights = IF localSaved THEN Append(@, cloud.timer[1]) ELSE @]
    /\ UNCHANGED <<match, teams, ballArrays, lastCall, actionHistory, panel, ui, reported,
                   query, undoCount>>

\* cloudStorageService.saveMatch resolves: setRetryCount(0), and the effect
\* runs again if that changed retryCount
CloudSaved ==
    /\ ~SaveDue
    /\ \E i \in 1..Len(cloud.flights) :
          cloud' = IF cloud.retryCount = 0 THEN Settle(cloud, i, "saved")
                   ELSE debounceSave([Settle(cloud, i, "saved") EXCEPT !.retryCount = 0], World)
    /\ UNCHANGED <<match, teams, ballArrays, lastCall, actionHistory, panel, ui, reported,
                   query, undoCount>>

\* cloudStorageService.saveMatch throws: if the retryCount of the attempt's
\* render is below 3, setRetryCount(prev => prev + 1) and the effect runs again
\* (the saveMatch it also sets on a timer has its error caught and sets no state)
CloudSaveThrew ==
    /\ ~SaveDue
    /\ \E i \in 1..Len(cloud.flights) :
          cloud' = IF cloud.flights[i].retryCount < RetryLimit
                   THEN debounceSave([Settle(cloud, i, "threw") EXCEPT !.retryCount = @ + 1],
                                     World)
                   ELSE Settle(cloud, i, "threw")
    /\ UNCHANGED <<match, teams, ballArrays, lastCall, actionHistory, panel, ui, reported,
                   query, undoCount>>

RetryNext ==
    \/ DebounceSave
    \/ RetrySelect
    \/ RetryRun
    \/ SaveTimer
    \/ CloudSaved
    \/ CloudSaveThrew

SpecRetry == RetryInit /\ [][RetryNext]_vars

\* C30: retryCount stays in 0..3, and it is 0 after a save attempt whose
\* cloud save did not throw
C30_RetryBounded ==
    /\ cloud.retryCount \in 0..RetryLimit
    /\ cloud.settled = "saved" => cloud.retryCount = 0

====
